---- MODULE Spec2Model ----
(***************************************************************************)
(* Pauper deck normalizer (Pauperwave/mtgo): line parser, card resolver,   *)
(* section classifier, normalizer/sorter, printer and the DeckNormalizer   *)
(* component that drives them.                                             *)
(*                                                                         *)
(* Text is modelled as TLA+ strings handled character by character         *)
(* (SubSeq, Len and \o work on strings), so trimming, splitting, regular   *)
(* expression matching, number parsing and printing are computed as the    *)
(* TypeScript computes them.                                               *)
(***************************************************************************)
EXTENDS Integers, Sequences, FiniteSets, TLC

VARIABLES
    stage,            \* position of the pure-function harness ("app" in Spec)
    pipe,             \* inputs and results of the pure functions under study
    input,            \* DeckNormalizer: const input = ref('')
    normalizedOutput, \* DeckNormalizer: const normalizedOutput = ref('')
    missingCards,     \* DeckNormalizer: const missingCards = ref<string[]>([])
    suggestions,      \* useSuggestions: const suggestions = ref<CardSuggestion[]>([])
    normalizerSuggestions, \* useDeckNormalizer: const suggestions = ref([])
    scryfallIndex,    \* useDeckNormalizer: const scryfallIndex = ref(null)
    isLoading,        \* useDeckNormalizer: const isLoading = ref(false)
    error,            \* useDeckNormalizer: const error = ref(null)
    runs              \* one record of locals per handleNormalize invocation

vars == <<stage, pipe, input, normalizedOutput, missingCards, suggestions,
          normalizerSuggestions, scryfallIndex, isLoading, error, runs>>

appVars == <<input, normalizedOutput, missingCards, suggestions,
             normalizerSuggestions, scryfallIndex, isLoading, error, runs>>

-----------------------------------------------------------------------------
(* Strings *)

Char(s, i) == SubSeq(s, i, i)

\* The white space of String.prototype.trim and of \s that the inputs use.
IsSpace(c) == c \in {" ", "\t", "\r", "\n"}

\* The line terminators that "." does not match.
IsLineTerminator(c) == c \in {"\n", "\r"}

IsDigit(c) == c \in {"0", "1", "2", "3", "4", "5", "6", "7", "8", "9"}

UpperLetters == "ABCDEFGHIJKLMNOPQRSTUVWXYZ"
LowerLetters == "abcdefghijklmnopqrstuvwxyz"

ToLowerChar(c) ==
    IF \E i \in 1..26 : Char(UpperLetters, i) = c
    THEN Char(LowerLetters, CHOOSE i \in 1..26 : Char(UpperLetters, i) = c)
    ELSE c

RECURSIVE ToLowerCase(_)
ToLowerCase(s) ==
    IF s = "" THEN ""
    ELSE ToLowerChar(Char(s, 1)) \o ToLowerCase(SubSeq(s, 2, Len(s)))

RECURSIVE TrimStart(_)
TrimStart(s) ==
    IF s # "" /\ IsSpace(Char(s, 1)) THEN TrimStart(SubSeq(s, 2, Len(s))) ELSE s

RECURSIVE TrimEnd(_)
TrimEnd(s) ==
    IF s # "" /\ IsSpace(Char(s, Len(s)))
    THEN TrimEnd(SubSeq(s, 1, Len(s) - 1)) ELSE s

\* String.prototype.trim
Trim(s) == TrimEnd(TrimStart(s))

\* String.prototype.indexOf, 1-based; 0 when sub does not occur.
IndexOf(s, sub) ==
    LET hits == {i \in 1..(Len(s) - Len(sub) + 1) :
                     SubSeq(s, i, i + Len(sub) - 1) = sub}
    IN IF hits = {} THEN 0 ELSE CHOOSE i \in hits : \A j \in hits : i <= j

\* String.prototype.includes
Includes(s, sub) == sub = "" \/ IndexOf(s, sub) # 0

\* String.prototype.split with a non-empty separator.
RECURSIVE Split(_, _)
Split(s, sep) ==
    LET i == IndexOf(s, sep)
    IN IF i = 0 THEN <<s>>
       ELSE <<SubSeq(s, 1, i - 1)>> \o Split(SubSeq(s, i + Len(sep), Len(s)), sep)

\* Array.prototype.join
RECURSIVE Join(_, _)
Join(parts, sep) ==
    IF parts = <<>> THEN ""
    ELSE IF Len(parts) = 1 THEN parts[1]
    ELSE parts[1] \o sep \o Join(Tail(parts), sep)

DigitValue(c) == CHOOSE d \in 0..9 : Char("0123456789", d + 1) = c

\* parseInt(digits, 10) on a string of decimal digits.
RECURSIVE ParseInt(_)
ParseInt(digits) ==
    IF digits = "" THEN 0
    ELSE 10 * ParseInt(SubSeq(digits, 1, Len(digits) - 1))
         + DigitValue(Char(digits, Len(digits)))

\* Number-to-string conversion of a template literal, for a natural number.
RECURSIVE NumberToString(_)
NumberToString(n) ==
    IF n < 10 THEN Char("0123456789", n + 1)
    ELSE NumberToString(n \div 10) \o Char("0123456789", (n % 10) + 1)

\* Length of the longest prefix of s made of decimal digits: what \d+ takes.
RECURSIVE DigitPrefixLen(_)
DigitPrefixLen(s) ==
    IF s # "" /\ IsDigit(Char(s, 1))
    THEN 1 + DigitPrefixLen(SubSeq(s, 2, Len(s))) ELSE 0

\* Length of the longest prefix of s made of white space: what \s+ takes.
RECURSIVE SpacePrefixLen(_)
SpacePrefixLen(s) ==
    IF s # "" /\ IsSpace(Char(s, 1))
    THEN 1 + SpacePrefixLen(SubSeq(s, 2, Len(s))) ELSE 0

-----------------------------------------------------------------------------
(* Line parser: parseRawDeck *)

\* The earlier parser recognised the delimiter without the optional colon.
SideboardDelimiterNoColon(trimmedLine) == ToLowerCase(trimmedLine) = "sideboard"

\* /^sideboard:?$/i.test(trimmedLine)
SideboardDelimiter(trimmedLine) ==
    ToLowerCase(trimmedLine) \in {"sideboard", "sideboard:"}

\* trimmedLine.match(/^(\d+)\s+(.+)$/): the greedy \d+ takes the whole digit
\* prefix, the greedy \s+ the whole white-space run after it, and (.+) must
\* reach the end of the line without meeting a line terminator.  The result
\* is <<match[1], match[2]>>, or <<>> when the line does not match.
CardLineMatch(trimmedLine) ==
    LET d    == DigitPrefixLen(trimmedLine)
        rest == SubSeq(trimmedLine, d + 1, Len(trimmedLine))
        w    == SpacePrefixLen(rest)
        name == SubSeq(rest, w + 1, Len(rest))
    IN IF /\ d >= 1
          /\ w >= 1
          /\ name # ""
          /\ \A i \in 1..Len(name) : ~IsLineTerminator(Char(name, i))
       THEN <<SubSeq(trimmedLine, 1, d), name>>
       ELSE <<>>

\* The body of the for loop over the lines, with the running isSideboard flag.
RECURSIVE ParseLines(_, _, _)
ParseLines(lines, isSideboard, cards) ==
    IF lines = <<>> THEN cards
    ELSE LET trimmedLine == Trim(Head(lines))
             match == CardLineMatch(trimmedLine)
         IN IF trimmedLine = "" THEN ParseLines(Tail(lines), isSideboard, cards)
            ELSE IF SideboardDelimiter(trimmedLine)
                 THEN ParseLines(Tail(lines), TRUE, cards)
            ELSE IF match = <<>> THEN ParseLines(Tail(lines), isSideboard, cards)
            ELSE IF match[1] = "" \/ match[2] = ""
                 THEN ParseLines(Tail(lines), isSideboard, cards)
            ELSE ParseLines(Tail(lines), isSideboard,
                            Append(cards, [quantity |-> ParseInt(match[1]),
                                           name |-> match[2],
                                           isSideboard |-> isSideboard]))

parseRawDeck(text) == ParseLines(Split(Trim(text), "\n"), FALSE, <<>>)

-----------------------------------------------------------------------------
(* Land categories: categorizeLand, landCategoryRank *)

CATEGORY_ORDER ==
    <<"Bounceland", "ArtifactBi", "ArtifactMono", "Gate", "Fixer",
      "TaplandBi", "TaplandMono", "Fetch", "Basic", "Other">>

\* A rank that tells no category from another.
landCategoryRankFlat(category) == 0

\* CATEGORY_RANK[category]: the 0-based position in CATEGORY_ORDER.
landCategoryRank(category) ==
    (CHOOSE i \in 1..Len(CATEGORY_ORDER) : CATEGORY_ORDER[i] = category) - 1

\* The curated name sets of ~/constants/land-sets.
BOUNCELAND    == {"Azorius Chancery", "Dimir Aqueduct"}
ARTIFACT_BI   == {"Drossforge Bridge", "Mistvault Bridge"}
ARTIFACT_MONO == {"Great Furnace", "Seat of the Synod"}
GATES         == {"Azorius Guildgate"}
FIXER         == {"Thriving Isle"}
TAPLAND_BI    == {"Dismal Backwater"}
TAPLAND_MONO  == {"Barren Moor"}
FETCH         == {"Evolving Wilds", "Terramorphic Expanse"}
BASIC         == {"Island", "Swamp", "Snow-Covered Island"}

\* contains(text, match): case-insensitive inclusion.
contains(text, match) == Includes(ToLowerCase(text), ToLowerCase(match))

\* A check that is content with one of the words.
includesAny(text, words) ==
    \E w \in words : Includes(ToLowerCase(text), ToLowerCase(w))

\* includesAll(text, words)
includesAll(text, words) ==
    \A w \in words : Includes(ToLowerCase(text), ToLowerCase(w))

categorizeLand(card) ==
    LET name     == card.name
        typeLine == card.type_line
        oracle   == card.oracle_text
        colors   == card.color_identity
    IN IF name \in BOUNCELAND THEN "Bounceland"
       ELSE IF name \in ARTIFACT_BI THEN "ArtifactBi"
       ELSE IF name \in ARTIFACT_MONO THEN "ArtifactMono"
       ELSE IF name \in GATES THEN "Gate"
       ELSE IF name \in FIXER THEN "Fixer"
       ELSE IF name \in TAPLAND_BI /\ Len(colors) = 2 THEN "TaplandBi"
       ELSE IF name \in TAPLAND_MONO /\ Len(colors) = 1 THEN "TaplandMono"
       ELSE IF name \in FETCH THEN "Fetch"
       ELSE IF name \in BASIC THEN "Basic"
       ELSE IF Includes(typeLine, "Basic") THEN "Basic"
       ELSE IF /\ includesAll(oracle, {"return a land", "control"})
               /\ contains(oracle, "enters tapped") THEN "Bounceland"
       ELSE IF Includes(typeLine, "Land") /\ Includes(typeLine, "Artifact")
            THEN IF contains(name, "bridge") THEN "ArtifactBi" ELSE "ArtifactMono"
       ELSE IF Includes(typeLine, "Gate") THEN "Gate"
       ELSE IF ~Includes(typeLine, "Gate") /\ contains(oracle, "any color")
            THEN "Fixer"
       ELSE IF contains(oracle, "enters tapped") /\ Len(colors) = 2 THEN "TaplandBi"
       ELSE IF contains(oracle, "enters tapped") /\ Len(colors) = 1 THEN "TaplandMono"
       ELSE IF includesAll(oracle, {"search", "land"}) THEN "Fetch"
       ELSE "Other"

-----------------------------------------------------------------------------
(* Normalizer: getFrontFaceName, sectionFromTypeLine, createScryfallIndex, *)
(* normalizeDeckWithIndex                                                  *)

PRINT_ORDER ==
    <<"Creature", "Instant", "Sorcery", "Artifact", "Enchantment", "Land",
      "Sideboard">>

SECTION_LABEL ==
    [Creature |-> "Creatures", Instant |-> "Instants", Sorcery |-> "Sorceries",
     Artifact |-> "Artifacts", Enchantment |-> "Enchantment", Land |-> "Lands",
     Sideboard |-> "Sideboard"]

\* A missing optional value (mana_cost: null, landCategory: undefined).
Null == "null"
Undefined == "undefined"

\* name.split('//')[0], trimmed; the whole name, trimmed, when that is empty.
getFrontFaceName(name) ==
    LET frontFace == Split(name, "//")[1]
    IN IF frontFace = "" THEN Trim(name) ELSE Trim(frontFace)

\* The earlier classifier filed a card of no known type under Sorcery.
sectionFromTypeLineSorceryFallback(typeLine, isSideboard) ==
    IF isSideboard THEN "Sideboard"
    ELSE IF Includes(typeLine, "Creature") THEN "Creature"
    ELSE IF Includes(typeLine, "Land") THEN "Land"
    ELSE IF Includes(typeLine, "Instant") THEN "Instant"
    ELSE IF Includes(typeLine, "Sorcery") THEN "Sorcery"
    ELSE IF Includes(typeLine, "Enchantment") THEN "Enchantment"
    ELSE IF Includes(typeLine, "Artifact") THEN "Artifact"
    ELSE "Sorcery"

sectionFromTypeLine(typeLine, isSideboard) ==
    IF isSideboard THEN "Sideboard"
    ELSE IF Includes(typeLine, "Creature") THEN "Creature"
    ELSE IF Includes(typeLine, "Land") THEN "Land"
    ELSE IF Includes(typeLine, "Instant") THEN "Instant"
    ELSE IF Includes(typeLine, "Sorcery") THEN "Sorcery"
    ELSE IF Includes(typeLine, "Enchantment") THEN "Enchantment"
    ELSE IF Includes(typeLine, "Artifact") THEN "Artifact"
    ELSE "Unknown"

\* map.set(key, value) on a Map held as a function from its keys.
MapSet(map, key, value) ==
    [k \in (DOMAIN map) \cup {key} |-> IF k = key THEN value ELSE map[k]]

EmptyMap == [k \in {} |-> Null]

\* The Map keyed by front-face name; a later card replaces an earlier one.
RECURSIVE createScryfallIndexFrom(_, _)
createScryfallIndexFrom(cards, map) ==
    IF cards = <<>> THEN map
    ELSE createScryfallIndexFrom(
             Tail(cards), MapSet(map, getFrontFaceName(Head(cards).name), Head(cards)))

createScryfallIndex(cards) == createScryfallIndexFrom(cards, EmptyMap)

NormalizedCard(card, scryfall) ==
    LET section == sectionFromTypeLine(scryfall.type_line, card.isSideboard)
    IN [quantity |-> card.quantity,
        name |-> card.name,
        isSideboard |-> card.isSideboard,
        section |-> section,
        cmc |-> scryfall.cmc,
        mana_cost |-> scryfall.mana_cost,
        landCategory |-> IF section = "Land" THEN categorizeLand(scryfall)
                         ELSE Undefined]

\* The outcome of a call: a returned value or a thrown Error with a message.
Returned(value) == [threw |-> FALSE, value |-> value]
Thrown(message) == [threw |-> TRUE, message |-> message]

\* A normalizer that gives up at the first entry without metadata.
RECURSIVE NormalizeFailFast(_, _, _, _)
NormalizeFailFast(parsed, index, missingCards0, normalized) ==
    IF parsed = <<>> THEN Returned(normalized)
    ELSE LET card == Head(parsed)
             frontFace == getFrontFaceName(card.name)
         IN IF frontFace \notin DOMAIN index
            THEN Thrown("Missing Scryfall data for: " \o card.name)
            ELSE NormalizeFailFast(Tail(parsed), index, missingCards0,
                     Append(normalized, NormalizedCard(card, index[frontFace])))

\* The for loop of normalizeDeckWithIndex and the throw that follows it.
RECURSIVE NormalizeLoop(_, _, _, _)
NormalizeLoop(parsed, index, missingCards0, normalized) ==
    IF parsed = <<>>
    THEN IF Len(missingCards0) > 0
         THEN Thrown("Missing Scryfall data for: " \o Join(missingCards0, ", "))
         ELSE Returned(normalized)
    ELSE LET card == Head(parsed)
             frontFace == getFrontFaceName(card.name)
         IN IF frontFace \notin DOMAIN index
            THEN NormalizeLoop(Tail(parsed), index,
                               Append(missingCards0, card.name), normalized)
            ELSE NormalizeLoop(Tail(parsed), index, missingCards0,
                     Append(normalized, NormalizedCard(card, index[frontFace])))

normalizeDeckFailFast(parsed, index) == NormalizeFailFast(parsed, index, <<>>, <<>>)

normalizeDeckWithIndex(parsed, index) == NormalizeLoop(parsed, index, <<>>, <<>>)

-----------------------------------------------------------------------------
(* Sorter and printer: getCanonicalName, getCombinedQuantity, sortCards,   *)
(* printDeck                                                               *)

\* String.prototype.localeCompare under the root collation: white space and
\* punctuation sort before digits, digits before letters; letter case only
\* breaks ties between strings that are otherwise equal, lower case first.
CollationOrder == " \t-',:/0123456789abcdefghijklmnopqrstuvwxyz"

PrimaryWeight(c) ==
    LET l == ToLowerChar(c)
    IN IF \E i \in 1..Len(CollationOrder) : Char(CollationOrder, i) = l
       THEN CHOOSE i \in 1..Len(CollationOrder) : Char(CollationOrder, i) = l
       ELSE 0

CaseWeight(c) == IF ToLowerChar(c) = c THEN 0 ELSE 1

RECURSIVE CompareBy(_, _, _)
CompareBy(a, b, level) ==
    IF a = "" /\ b = "" THEN 0
    ELSE IF a = "" THEN -1
    ELSE IF b = "" THEN 1
    ELSE LET wa == IF level = 1 THEN PrimaryWeight(Char(a, 1)) ELSE CaseWeight(Char(a, 1))
             wb == IF level = 1 THEN PrimaryWeight(Char(b, 1)) ELSE CaseWeight(Char(b, 1))
         IN IF wa < wb THEN -1
            ELSE IF wa > wb THEN 1
            ELSE CompareBy(SubSeq(a, 2, Len(a)), SubSeq(b, 2, Len(b)), level)

localeCompare(a, b) ==
    IF CompareBy(a, b, 1) # 0 THEN CompareBy(a, b, 1) ELSE CompareBy(a, b, 2)

FUNCTIONAL_REPRINTS ==
    [n \in {"Blue Elemental Blast", "Red Elemental Blast"} |->
        IF n = "Blue Elemental Blast" THEN "Hydroblast" ELSE "Pyroblast"]

getCanonicalName(cardName) ==
    IF cardName \in DOMAIN FUNCTIONAL_REPRINTS
    THEN FUNCTIONAL_REPRINTS[cardName] ELSE cardName

RECURSIVE SumQuantity(_)
SumQuantity(cards) ==
    IF cards = <<>> THEN 0 ELSE Head(cards).quantity + SumQuantity(Tail(cards))

\* A card counted on its own, whatever its functional reprints.
getOwnQuantity(cards, card) == card.quantity

getCombinedQuantity(cards, card) ==
    LET canonicalName == getCanonicalName(card.name)
        SameGroup(c) == getCanonicalName(c.name) = canonicalName
    IN SumQuantity(SelectSeq(cards, SameGroup))

\* The land of unknown category that sortCards builds when landCategory is unset.
FallbackLand(c) ==
    [name |-> c.name, type_line |-> "Land", cmc |-> c.cmc,
     oracle_text |-> "", color_identity |-> <<>>]

\* A comparator that orders by cmc and name alone, X in the cost or not.
CompareCardsIgnoringX(cards, section, a, b) ==
    IF a.cmc # b.cmc THEN a.cmc - b.cmc ELSE localeCompare(a.name, b.name)

\* The comparator sortCards hands to Array.prototype.sort for the section;
\* cards is the section's group.  Negative: a first; positive: b first.
CompareCards(cards, section, a, b) ==
    IF section = "Land"
    THEN LET categoryA == IF a.landCategory # Undefined THEN a.landCategory
                          ELSE categorizeLand(FallbackLand(a))
             categoryB == IF b.landCategory # Undefined THEN b.landCategory
                          ELSE categorizeLand(FallbackLand(b))
             rankA == landCategoryRank(categoryA)
             rankB == landCategoryRank(categoryB)
         IN IF rankA # rankB THEN rankA - rankB
            ELSE IF a.quantity # b.quantity THEN b.quantity - a.quantity
            ELSE localeCompare(a.name, b.name)
    ELSE IF section = "Sideboard"
    THEN LET qtyA == getCombinedQuantity(cards, a)
             qtyB == getCombinedQuantity(cards, b)
             canonicalA == getCanonicalName(a.name)
             canonicalB == getCanonicalName(b.name)
         IN IF qtyA # qtyB THEN qtyB - qtyA
            ELSE IF canonicalA # canonicalB THEN localeCompare(canonicalA, canonicalB)
            ELSE IF a.quantity # b.quantity THEN b.quantity - a.quantity
            ELSE localeCompare(a.name, b.name)
    ELSE LET aHasX == Includes(IF a.mana_cost = Null THEN "" ELSE a.mana_cost, "X")
             bHasX == Includes(IF b.mana_cost = Null THEN "" ELSE b.mana_cost, "X")
         IN IF aHasX # bHasX THEN (IF aHasX THEN 1 ELSE -1)
            ELSE IF a.cmc # b.cmc THEN a.cmc - b.cmc
            ELSE localeCompare(a.name, b.name)

\* An unstable sort: an element goes before the elements it ties with.
RECURSIVE InsertCardBeforeTies(_, _, _, _)
InsertCardBeforeTies(sorted, card, cards, section) ==
    IF sorted = <<>> THEN <<card>>
    ELSE LET last == sorted[Len(sorted)]
         IN IF CompareCards(cards, section, last, card) >= 0
            THEN Append(InsertCardBeforeTies(SubSeq(sorted, 1, Len(sorted) - 1),
                                             card, cards, section), last)
            ELSE Append(sorted, card)

\* Array.prototype.sort is stable: an element goes after every element
\* already placed that does not sort after it.
RECURSIVE InsertCard(_, _, _, _)
InsertCard(sorted, card, cards, section) ==
    IF sorted = <<>> THEN <<card>>
    ELSE LET last == sorted[Len(sorted)]
         IN IF CompareCards(cards, section, last, card) > 0
            THEN Append(InsertCard(SubSeq(sorted, 1, Len(sorted) - 1),
                                   card, cards, section), last)
            ELSE Append(sorted, card)

RECURSIVE SortFrom(_, _, _, _)
SortFrom(rest, sorted, cards, section) ==
    IF rest = <<>> THEN sorted
    ELSE SortFrom(Tail(rest), InsertCard(sorted, Head(rest), cards, section),
                  cards, section)

sortCards(cards, section) == SortFrom(cards, <<>>, cards, section)

CardLine(c) == NumberToString(c.quantity) \o " " \o c.name

\* A printer that writes the header of a section without cards as well.
SectionTextAlwaysHeader(cards, section) ==
    LET InSection(c) == c.section = section
        group == SelectSeq(cards, InSection)
        sorted == sortCards(group, section)
        lines == [i \in 1..Len(sorted) |-> CardLine(sorted[i])]
    IN SECTION_LABEL[section] \o "\n" \o Join(lines, "\n")

\* The text of one section, "" for a section without cards.
SectionText(cards, section) ==
    LET InSection(c) == c.section = section
        group == SelectSeq(cards, InSection)
        sorted == sortCards(group, section)
        lines == [i \in 1..Len(sorted) |-> CardLine(sorted[i])]
    IN IF Len(group) = 0 THEN ""
       ELSE SECTION_LABEL[section] \o "\n" \o Join(lines, "\n")

printDeck(cards) ==
    LET texts == [i \in 1..Len(PRINT_ORDER) |-> SectionText(cards, PRINT_ORDER[i])]
        NonEmpty(t) == t # ""
    IN Join(SelectSeq(texts, NonEmpty), "\n\n")

-----------------------------------------------------------------------------
(* The component's state after setup: the refs of DeckNormalizer,          *)
(* useDeckNormalizer and useSuggestions hold their initial values.         *)

NoIndex == [null |-> TRUE]
NoError == "null"

AppInit ==
    /\ input = ""
    /\ normalizedOutput = ""
    /\ missingCards = <<>>
    /\ suggestions = <<>>
    /\ normalizerSuggestions = <<>>
    /\ scryfallIndex = NoIndex
    /\ isLoading = FALSE
    /\ error = NoError
    /\ runs = <<>>

\* All sequences over S of length at most n.
SeqsUpTo(S, n) == UNION {[1..k -> S] : k \in 0..n}

-----------------------------------------------------------------------------
(* SpecParse: parseRawDeck applied to pasted texts *)

MaxParseLines == 3

\* Lines a pasted decklist is made of: card lines (with leading zeros, tabs,
\* a carriage return, a two-faced name, repeated names), delimiter lines in
\* several spellings, blank lines and lines that are neither.
ParseLineChoices ==
    { "", "  ",
      "Sideboard", "sideboard:", " SIDEBOARD\r", "Sideboard::",
      "4 Island", "2 Island", " 03\tMyr Enforcer ", "10 Lightning Bolt\r",
      "1 Fire // Ice", "Island", "4x Island", "1 Sideboard", "0 Island" }

InitParse ==
    /\ stage = "text"
    /\ \E lines \in SeqsUpTo(ParseLineChoices, MaxParseLines) :
          pipe = [text |-> Join(lines, "\n")]
    /\ AppInit

Parse ==
    /\ stage = "text"
    /\ stage' = "parsed"
    /\ pipe' = [text |-> pipe.text, cards |-> parseRawDeck(pipe.text)]
    /\ UNCHANGED appVars

NextParse == Parse

SpecParse == InitParse /\ [][NextParse]_vars

-----------------------------------------------------------------------------
(* The card metadata service's data: the cards the model's decks refer to, *)
(* with the fields fetchScryfallData copies from a response.               *)

Card(name, type_line, cmc, mana_cost, oracle_text, color_identity) ==
    [name |-> name, type_line |-> type_line, cmc |-> cmc, mana_cost |-> mana_cost,
     oracle_text |-> oracle_text, color_identity |-> color_identity]

ScryfallCatalogue ==
    << Card("Delver of Secrets // Insectile Aberration",
            "Creature - Human Wizard // Creature - Human Insect", 1, "{U}",
            "", <<"U">>),
       Card("Myr Enforcer", "Artifact Creature - Myr", 7, "{7}",
            "Affinity for artifacts", <<>>),
       Card("Lightning Bolt", "Instant", 1, "{R}",
            "Lightning Bolt deals 3 damage to any target.", <<"R">>),
       Card("Rolling Thunder", "Sorcery", 2, "{X}{R}{R}",
            "Rolling Thunder deals X damage divided as you choose.", <<"R">>),
       Card("Jace Beleren", "Legendary Planeswalker - Jace", 3, "{1}{U}{U}",
            "", <<"U">>),
       Card("Island", "Basic Land - Island", 0, "", "({T}: Add {U}.)", <<"U">>),
       Card("Great Furnace", "Artifact Land", 0, "", "({T}: Add {R}.)", <<"R">>),
       Card("Hydroblast", "Instant", 1, "{U}", "", <<"U">>),
       Card("Blue Elemental Blast", "Instant", 1, "{U}", "", <<"U">>) >>

CatalogueWithout(names) ==
    LET Kept(c) == c.name \notin names
    IN SelectSeq(ScryfallCatalogue, Kept)

-----------------------------------------------------------------------------
(* SpecLand: categorizeLand applied to land cards *)

\* A name of every curated set, and two names of none.
LandNames ==
    {"Azorius Chancery", "Drossforge Bridge", "Great Furnace", "Azorius Guildgate",
     "Thriving Isle", "Dismal Backwater", "Barren Moor", "Evolving Wilds", "Island",
     "Unlisted Bridge", "Unlisted Land"}

LandTypeLines == {"Land", "Basic Land", "Artifact Land", "Land - Gate", ""}

LandOracleTexts ==
    {"", "Enters tapped. Return a land you control.", "Add one mana of any color.",
     "Enters tapped.", "Search your library for a land.",
     "Enters tapped. Sacrifice a land."}

LandColors == {<<>>, <<"U">>, <<"U", "B">>, <<"W", "U", "B">>}

InitLand ==
    /\ stage = "land"
    /\ \E name \in LandNames : \E typeLine \in LandTypeLines :
       \E oracle \in LandOracleTexts : \E colors \in LandColors :
          pipe = [card |-> Card(name, typeLine, 0, "", oracle, colors)]
    /\ AppInit

Categorize ==
    /\ stage = "land"
    /\ stage' = "categorized"
    /\ pipe' = [card |-> pipe.card, category |-> categorizeLand(pipe.card)]
    /\ UNCHANGED appVars

NextLand == Categorize

SpecLand == InitLand /\ [][NextLand]_vars

-----------------------------------------------------------------------------
(* SpecClassify: sectionFromTypeLine applied to type lines *)

MaxTypeWords == 2

TypeWords ==
    {"Creature", "Land", "Instant", "Sorcery", "Enchantment", "Artifact",
     "Planeswalker", "Basic", "Legendary"}

InitClassify ==
    /\ stage = "typeLine"
    /\ \E words \in SeqsUpTo(TypeWords, MaxTypeWords) : \E sb \in BOOLEAN :
          pipe = [typeLine |-> Join(words, " "), isSideboard |-> sb]
    /\ AppInit

Classify ==
    /\ stage = "typeLine"
    /\ stage' = "classified"
    /\ pipe' = [typeLine |-> pipe.typeLine, isSideboard |-> pipe.isSideboard,
                section |-> sectionFromTypeLine(pipe.typeLine, pipe.isSideboard)]
    /\ UNCHANGED appVars

NextClassify == Classify

SpecClassify == InitClassify /\ [][NextClassify]_vars

-----------------------------------------------------------------------------
(* SpecPipe: parse, normalize and print a deck, then run the printed text  *)
(* through the same pipeline again with the same resolution index.         *)

MaxMainLines == 2
MaxSideLines == 2

MainLineChoices ==
    {"4 Myr Enforcer", "2 Myr Enforcer", "4 Lightning Bolt", "1 Rolling Thunder",
     "2 Island", "4 Great Furnace", "1 Jace Beleren", "4 Delver of Secrets",
     "4 Lightnig Bolt"}

SideLineChoices ==
    {"2 Hydroblast", "3 Blue Elemental Blast", "2 Island", "1 Counterspel"}

\* The texts a user pastes: main-deck lines, then possibly a Sideboard line
\* and sideboard lines.
DeckTexts ==
    {Join(main, "\n") : main \in SeqsUpTo(MainLineChoices, MaxMainLines)}
    \cup
    {Join(main \o <<"", "Sideboard">> \o side, "\n") :
        main \in SeqsUpTo(MainLineChoices, MaxMainLines),
        side \in SeqsUpTo(SideLineChoices, MaxSideLines)}

\* The card lists a resolution index is built from: everything the service
\* knows, or a list that lacks a card and repeats another.
IndexSources ==
    {ScryfallCatalogue,
     CatalogueWithout({"Island"}) \o <<ScryfallCatalogue[2]>>}

NotYet == Thrown("not computed")

InitPipe ==
    /\ stage = "deck"
    /\ \E t \in DeckTexts : \E src \in IndexSources :
          pipe = [text |-> t, index |-> createScryfallIndex(src),
                  parsed |-> <<>>, normalized |-> NotYet, printed |-> "",
                  reparsed |-> <<>>, renormalized |-> NotYet, reprinted |-> ""]
    /\ AppInit

ParseDeck ==
    /\ stage = "deck"
    /\ stage' = "parsed"
    /\ pipe' = [pipe EXCEPT !.parsed = parseRawDeck(pipe.text)]
    /\ UNCHANGED appVars

NormalizeDeck ==
    /\ stage = "parsed"
    /\ LET result == normalizeDeckWithIndex(pipe.parsed, pipe.index)
       IN /\ stage' = IF result.threw THEN "failed" ELSE "normalized"
          /\ pipe' = [pipe EXCEPT !.normalized = result]
    /\ UNCHANGED appVars

PrintDeck ==
    /\ stage = "normalized"
    /\ stage' = "printed"
    /\ pipe' = [pipe EXCEPT !.printed = printDeck(pipe.normalized.value)]
    /\ UNCHANGED appVars

ReparseDeck ==
    /\ stage = "printed"
    /\ stage' = "reparsed"
    /\ pipe' = [pipe EXCEPT !.reparsed = parseRawDeck(pipe.printed)]
    /\ UNCHANGED appVars

RenormalizeDeck ==
    /\ stage = "reparsed"
    /\ LET result == normalizeDeckWithIndex(pipe.reparsed, pipe.index)
       IN /\ stage' = IF result.threw THEN "refailed" ELSE "renormalized"
          /\ pipe' = [pipe EXCEPT !.renormalized = result]
    /\ UNCHANGED appVars

ReprintDeck ==
    /\ stage = "renormalized"
    /\ stage' = "reprinted"
    /\ pipe' = [pipe EXCEPT !.reprinted = printDeck(pipe.renormalized.value)]
    /\ UNCHANGED appVars

NextPipe ==
    \/ ParseDeck
    \/ NormalizeDeck
    \/ PrintDeck
    \/ ReparseDeck
    \/ RenormalizeDeck
    \/ ReprintDeck

SpecPipe == InitPipe /\ [][NextPipe]_vars

-----------------------------------------------------------------------------
(* The card metadata service, as fetchScryfallData sees it *)

\* normalizeCardNameForLookup: the front face of a name, trimmed.
normalizeCardNameForLookup(name) ==
    LET frontFace == Split(name, "//")[1]
    IN IF frontFace # "" THEN Trim(frontFace) ELSE Trim(name)

\* [...new Set(cardNames)]: first occurrences, in order.
Unique(names) ==
    LET IsFirst(i) == \A j \in 1..(i - 1) : names[j] # names[i]
        kept == SelectSeq([i \in 1..Len(names) |-> i], IsFirst)
    IN [k \in 1..Len(kept) |-> names[kept[k]]]

BATCH_SIZE == 75

CatalogueCards == {ScryfallCatalogue[i] : i \in 1..Len(ScryfallCatalogue)}

\* Names the fuzzy endpoint corrects.
FuzzyCorrections ==
    [n \in {"Lightnig Bolt"} |-> "Lightning Bolt"]

\* POST /cards/collection, one identifier: a name is matched without regard
\* to letter case; the service may or may not resolve the front face of a
\* two-faced card.  The result is the set of possible answers, each a
\* sequence of zero or one card.
CollectionAnswers(identifier) ==
    LET full  == {c \in CatalogueCards : ToLowerCase(c.name) = ToLowerCase(identifier)}
        front == {c \in CatalogueCards :
                     /\ c.name # normalizeCardNameForLookup(c.name)
                     /\ ToLowerCase(normalizeCardNameForLookup(c.name))
                            = ToLowerCase(identifier)}
    IN IF full # {} THEN {<<c>> : c \in full}
       ELSE {<<c>> : c \in front} \cup {<<>>}

\* The possible data arrays of a successful collection response.
RECURSIVE CollectionData(_)
CollectionData(identifiers) ==
    IF identifiers = <<>> THEN {<<>>}
    ELSE {first \o rest : first \in CollectionAnswers(Head(identifiers)),
                          rest \in CollectionData(Tail(identifiers))}

NoCard == [found |-> FALSE]
FoundCard(c) == [found |-> TRUE, card |-> c]

\* GET /cards/named?fuzzy=<front face>: the responses the service may give.
\* A card whose name or front face is the searched name up to letter case or
\* a small typo is returned with status 200; a name it knows no card for is
\* answered 404; any request may be answered 500.
FuzzyResponses(cardName) ==
    LET searchName == normalizeCardNameForLookup(cardName)
        wanted == IF searchName \in DOMAIN FuzzyCorrections
                  THEN FuzzyCorrections[searchName] ELSE searchName
        known == {c \in CatalogueCards :
                    ToLowerCase(wanted) \in {ToLowerCase(c.name),
                                             ToLowerCase(normalizeCardNameForLookup(c.name))}}
    IN {[ok |-> TRUE, status |-> 200, card |-> c] : c \in known}
       \cup (IF known = {} THEN {[ok |-> FALSE, status |-> 404]} ELSE {})
       \cup {[ok |-> FALSE, status |-> 500]}

\* fetchSingleCard, given the response to its request: the card of an ok
\* response; null for a response that is not ok.
fetchSingleCard(cardName, response) ==
    IF response.ok THEN FoundCard(response.card) ELSE NoCard

-----------------------------------------------------------------------------
(* Resolver and component: fetchScryfallData, fetchAndBuildIndex,          *)
(* normalize, handleNormalize, applySuggestion, dismissSuggestion          *)

MaxRuns == 2

CollectionRequest(batch) ==
    [kind |-> "collection",
     identifiers |-> [j \in 1..Len(batch) |-> normalizeCardNameForLookup(batch[j])]]

FuzzyRequest(cardName) ==
    [kind |-> "fuzzy", name |-> normalizeCardNameForLookup(cardName)]

\* A slice that runs to the end of the list, whatever its length.
BatchToTheEnd(run) ==
    SubSeq(run.uniqueNames, run.i + 1, Len(run.uniqueNames))

\* uniqueNames.slice(i, i + BATCH_SIZE)
Batch(run) ==
    SubSeq(run.uniqueNames, run.i + 1,
           IF run.i + BATCH_SIZE < Len(run.uniqueNames)
           THEN run.i + BATCH_SIZE ELSE Len(run.uniqueNames))

\* Case-insensitive comparison, as the resolver once made it.
IsDifferentNameIgnoringCase(cardName, card) ==
    ToLowerCase(cardName) # ToLowerCase(card.name)

\* if (cardName !== card.name): the name as typed against the name returned.
IsDifferentName(cardName, card) == cardName # card.name

\* A fuzzy loop that gives up at the first name it cannot find.
FuzzyLoopStopsAtMiss(run) ==
    run.k < Len(run.notFoundNames) /\ run.stillNotFound = <<>>

\* for (const cardName of notFoundNames): is there a next name to look up?
FuzzyLoopContinues(run) == run.k < Len(run.notFoundNames)

\* The message of the error thrown for the names no lookup found.  The
\* bullet character of the source is written "*", and "e" stands for its
\* accented letter.
NotFoundMessage(stillNotFound) ==
    LET cardLabel == IF Len(stillNotFound) > 1
                     THEN "Le seguenti carte non sono state trovate"
                     ELSE "La seguente carta non e stata trovata"
        cardList == Join([j \in 1..Len(stillNotFound) |-> "* " \o stillNotFound[j]], "\n")
    IN cardLabel \o " su Scryfall:\n\n" \o cardList
       \o "\n\nVerifica l'ortografia o prova a usare il nome esatto della carta da Scryfall."

\* The locals of one handleNormalize invocation and of the fetchScryfallData
\* call it makes, with the requests sent, the responses to them (ok and
\* status), the cards the collection responses held and the results of
\* fetchSingleCard; events tells the order in which requests were sent
\* ("call"), answered ("response") and a 100 ms timeout was awaited ("delay").
NewRun(parsed) ==
    [pc |-> "start",
     parsed |-> parsed,
     uniqueNames |-> Unique([j \in 1..Len(parsed) |-> parsed[j].name]),
     i |-> 0,
     requests |-> <<>>,
     responses |-> <<>>,
     events |-> <<>>,
     collected |-> <<>>,
     allCards |-> <<>>,
     foundExactMatch |-> {},
     notFoundNames |-> <<>>,
     k |-> 0,
     answers |-> <<>>,
     suggestions |-> <<>>,
     stillNotFound |-> <<>>,
     returned |-> FALSE,
     fetchedSuggestions |-> <<>>,
     thrown |-> NoError]

\* String.prototype.replace(pattern, replacement) with a string pattern: the
\* first occurrence only.
ReplaceFirst(s, pattern, replacement) ==
    LET at == IndexOf(s, pattern)
    IN IF at = 0 THEN s
       ELSE SubSeq(s, 1, at - 1) \o replacement
            \o SubSeq(s, at + Len(pattern), Len(s))

\* The catch block of handleNormalize: the list shown as missing cards.
CaughtMissingCards(message, current) ==
    IF Includes(message, "Missing Scryfall data for:")
    THEN LET cardsString == ReplaceFirst(message, "Missing Scryfall data for: ", "")
             names == Split(cardsString, ", ")
             trimmed == [j \in 1..Len(names) |-> Trim(names[j])]
             NonEmpty(n) == n # ""
         IN IF cardsString # "" THEN SelectSeq(trimmed, NonEmpty) ELSE current
    ELSE current

\* normalize(parsed) of useDeckNormalizer, reading the index ref.
normalize(parsed, index) ==
    IF index = NoIndex
    THEN Thrown("Index not built yet. Call fetchAndBuildIndex first.")
    ELSE LET normalized == normalizeDeckWithIndex(parsed, index)
         IN IF normalized.threw THEN normalized
            ELSE Returned(printDeck(normalized.value))

\* fetchScryfallData throws: the catch and finally blocks of
\* fetchAndBuildIndex, then the catch block of handleNormalize.
FetchFailed(r, run, message) ==
    /\ error' = message
    /\ isLoading' = FALSE
    /\ missingCards' = CaughtMissingCards(message, missingCards)
    /\ runs' = [runs EXCEPT ![r] = [run EXCEPT !.pc = "failed", !.thrown = message]]
    /\ UNCHANGED <<input, normalizedOutput, suggestions, normalizerSuggestions,
                   scryfallIndex>>

\* fetchScryfallData returns {cards, suggestions}: the rest of
\* fetchAndBuildIndex, then the rest of handleNormalize.
FetchReturned(r, run) ==
    LET suggested == [j \in 1..Len(run.suggestions) |-> run.suggestions[j].suggestedCard]
    IN \E index \in {createScryfallIndex(run.allCards \o suggested)} :
       \E output \in {normalize(run.parsed, index)} :
          /\ normalizerSuggestions' = run.suggestions
          /\ scryfallIndex' = index
          /\ isLoading' = FALSE
          /\ suggestions' = run.suggestions
          /\ normalizedOutput' = IF output.threw THEN normalizedOutput ELSE output.value
          /\ missingCards' = IF output.threw
                             THEN CaughtMissingCards(output.message, missingCards)
                             ELSE missingCards
          /\ runs' = [runs EXCEPT ![r] =
                        [run EXCEPT !.pc = IF output.threw THEN "failed" ELSE "done",
                                    !.returned = TRUE,
                                    !.fetchedSuggestions = run.suggestions,
                                    !.thrown = IF output.threw THEN output.message
                                               ELSE NoError]]
          /\ UNCHANGED <<input, error>>

\* The state reset at the top of handleNormalize.
KeepOutput(output) == output

ResetOutput(output) == ""

\* handleNormalize() called with the input text as it is now, up to the
\* first await.
BeginNormalize(text) ==
    IF Trim(text) = ""
    THEN UNCHANGED <<normalizedOutput, missingCards, suggestions,
                     normalizerSuggestions, scryfallIndex, isLoading, error, runs>>
    ELSE LET parsed == parseRawDeck(text)
             run == NewRun(parsed)
         IN /\ normalizedOutput' = ResetOutput(normalizedOutput)
            /\ missingCards' = <<>>
            /\ suggestions' = <<>>
            /\ UNCHANGED scryfallIndex
            /\ IF Len(parsed) = 0
               THEN /\ runs' = Append(runs,
                                 [run EXCEPT !.pc = "failed",
                                             !.thrown = "Nessuna carta trovata nell'input"])
                    /\ UNCHANGED <<normalizerSuggestions, isLoading, error>>
               ELSE /\ isLoading' = TRUE
                    /\ error' = NoError
                    /\ normalizerSuggestions' = <<>>
                    /\ runs' = Append(runs,
                                 [run EXCEPT !.pc = "batch",
                                             !.requests = <<CollectionRequest(Batch(run))>>,
                                             !.events = <<"call">>])

\* The texts the user pastes or types into the input.
InputTexts ==
    { "",
      "Island",
      "4 Lightning Bolt\n2 Island",
      "4 Delver of Secrets\n4 lightning bolt",
      "4 Delver of Secrets // Insectile Aberration",
      "4 Lightnig Bolt\nSideboard\n1 Counterspel\n1 Black Lotus" }

\* The user edits the text; watch(input) empties the results when the new
\* text is blank.
SetInput(text) ==
    /\ stage = "app"
    /\ text # input
    /\ input' = text
    /\ IF Trim(text) = ""
       THEN /\ normalizedOutput' = ""
            /\ missingCards' = <<>>
            /\ suggestions' = <<>>
       ELSE UNCHANGED <<normalizedOutput, missingCards, suggestions>>
    /\ UNCHANGED <<stage, pipe, normalizerSuggestions, scryfallIndex, isLoading,
                   error, runs>>

\* The "Normalizza Mazzo" button of InputCard: disabled while the text is
\* blank, and while isLoading, which its loading property shows.
ClickNormalize ==
    /\ stage = "app"
    /\ Trim(input) # ""
    /\ ~isLoading
    /\ Len(runs) < MaxRuns
    /\ BeginNormalize(input)
    /\ UNCHANGED <<stage, pipe, input>>

\* The statuses of a collection response that is not ok.
FailureStatuses == {500}

\* The collection request of the current batch is answered not ok: the
\* error thrown for it is caught and wrapped.
BatchFailed(r) ==
    /\ stage = "app"
    /\ runs[r].pc = "batch"
    /\ \E status \in FailureStatuses :
          FetchFailed(r, [runs[r] EXCEPT !.responses =
                                    Append(@, [ok |-> FALSE, status |-> status]),
                                         !.events = Append(@, "response")],
                      "Failed to fetch Scryfall data: "
                      \o "Scryfall API error: " \o NumberToString(status))
    /\ UNCHANGED <<stage, pipe>>

\* After the last batch: the names without an exact match go to the fuzzy
\* loop, whose first lookup is sent at once; without such names the call
\* returns.
AfterBatches(r, run) ==
    LET NotExact(n) == n \notin run.foundExactMatch
        notFoundNames == SelectSeq(run.uniqueNames, NotExact)
        run1 == [run EXCEPT !.notFoundNames = notFoundNames]
    IN IF Len(notFoundNames) > 0
       THEN /\ runs' = [runs EXCEPT ![r] =
                          [run1 EXCEPT !.pc = "fuzzy", !.k = 1,
                                       !.requests = Append(@, FuzzyRequest(notFoundNames[1])),
                                       !.events = Append(@, "call")]]
            /\ UNCHANGED <<input, normalizedOutput, missingCards, suggestions,
                           normalizerSuggestions, scryfallIndex, isLoading, error>>
       ELSE FetchReturned(r, run1)

\* The collection request of the current batch is answered with data; with
\* names left, the next batch is requested once the 100 ms delay has passed.
BatchAnswered(r) ==
    /\ stage = "app"
    /\ runs[r].pc = "batch"
    /\ LET run == runs[r]
           batch == Batch(run)
       IN \E data \in CollectionData(CollectionRequest(batch).identifiers) :
             LET exact == {batch[j] : j \in {j \in 1..Len(batch) :
                              \E c \in 1..Len(data) :
                                  normalizeCardNameForLookup(batch[j]) = data[c].name}}
                 run1 == [run EXCEPT !.responses = Append(@, [ok |-> TRUE, status |-> 200]),
                                     !.events = Append(@, "response"),
                                     !.collected = @ \o data,
                                     !.allCards = @ \o data,
                                     !.foundExactMatch = @ \cup exact]
                 next == [run1 EXCEPT !.i = @ + BATCH_SIZE]
             IN IF run.i + BATCH_SIZE < Len(run.uniqueNames)
                THEN /\ runs' = [runs EXCEPT ![r] =
                                   [next EXCEPT !.requests =
                                       Append(@, CollectionRequest(Batch(next))),
                                                !.events = @ \o <<"delay", "call">>]]
                     /\ UNCHANGED <<input, normalizedOutput, missingCards, suggestions,
                                    normalizerSuggestions, scryfallIndex, isLoading,
                                    error>>
                ELSE AfterBatches(r, run1)
    /\ UNCHANGED <<stage, pipe>>

\* fetchSingleCard resolves for the name the fuzzy loop is at.
FuzzyAnswered(r) ==
    /\ stage = "app"
    /\ runs[r].pc = "fuzzy"
    /\ LET run == runs[r]
           cardName == run.notFoundNames[run.k]
       IN \E response \in FuzzyResponses(cardName) :
             LET answer == fetchSingleCard(cardName, response)
                 run1 == [run EXCEPT !.responses =
                                        Append(@, [ok |-> response.ok,
                                                   status |-> response.status]),
                                     !.events = Append(@, "response"),
                                     !.answers = Append(@, answer),
                                     !.pc = "fuzzyDelay"]
             IN runs' = [runs EXCEPT ![r] =
                   IF answer.found
                   THEN IF IsDifferentName(cardName, answer.card)
                        THEN [run1 EXCEPT !.suggestions =
                                 Append(@, [searchedName |-> cardName,
                                            suggestedCard |-> answer.card])]
                        ELSE [run1 EXCEPT !.allCards = Append(@, answer.card)]
                   ELSE [run1 EXCEPT !.stillNotFound = Append(@, cardName)]]
    /\ UNCHANGED <<stage, pipe, input, normalizedOutput, missingCards, suggestions,
                   normalizerSuggestions, scryfallIndex, isLoading, error>>

\* The 100 ms after a fuzzy lookup have passed: the next name is looked up,
\* or the loop is over and the call throws or returns.
FuzzyDelayElapsed(r) ==
    /\ stage = "app"
    /\ runs[r].pc = "fuzzyDelay"
    /\ LET run == [runs[r] EXCEPT !.events = Append(@, "delay")]
       IN IF FuzzyLoopContinues(run)
          THEN /\ runs' = [runs EXCEPT ![r] =
                             [run EXCEPT !.pc = "fuzzy", !.k = @ + 1,
                                         !.requests = Append(@,
                                             FuzzyRequest(run.notFoundNames[run.k + 1])),
                                         !.events = Append(@, "call")]]
               /\ UNCHANGED <<input, normalizedOutput, missingCards, suggestions,
                              normalizerSuggestions, scryfallIndex, isLoading, error>>
          ELSE IF Len(run.stillNotFound) > 0
               THEN FetchFailed(r, run, NotFoundMessage(run.stillNotFound))
               ELSE FetchReturned(r, run)
    /\ UNCHANGED <<stage, pipe>>

\* input.replace(new RegExp(`(\\d+\\s+)${escaped searchedName}`, 'g'),
\* `$1${suggestedName}`): every "<digits><white space><searchedName>" keeps
\* its digits and white space and has the name replaced.
RECURSIVE ReplaceCardName(_, _, _)
ReplaceCardName(text, searchedName, suggestedName) ==
    IF text = "" THEN ""
    ELSE LET d     == DigitPrefixLen(text)
             rest  == SubSeq(text, d + 1, Len(text))
             w     == SpacePrefixLen(rest)
             after == SubSeq(rest, w + 1, Len(rest))
         IN IF /\ d >= 1
               /\ w >= 1
               /\ Len(after) >= Len(searchedName)
               /\ SubSeq(after, 1, Len(searchedName)) = searchedName
            THEN SubSeq(text, 1, d + w) \o suggestedName
                 \o ReplaceCardName(SubSeq(after, Len(searchedName) + 1, Len(after)),
                                    searchedName, suggestedName)
            ELSE Char(text, 1)
                 \o ReplaceCardName(SubSeq(text, 2, Len(text)), searchedName, suggestedName)

WithoutSuggestion(list, searchedName) ==
    LET Other(sg) == sg.searchedName # searchedName
    IN SelectSeq(list, Other)

\* applySuggestion(searchedName, suggestedName), from the Apply button of a
\* listed suggestion; with no suggestion left it calls handleNormalize.
ApplySuggestion(j) ==
    /\ stage = "app"
    /\ j \in 1..Len(suggestions)
    /\ LET searchedName == suggestions[j].searchedName
           suggestedName == suggestions[j].suggestedCard.name
           text == ReplaceCardName(input, searchedName, suggestedName)
           remaining == WithoutSuggestion(suggestions, searchedName)
       IN /\ input' = text
          /\ IF Len(remaining) = 0
             THEN /\ Len(runs) < MaxRuns
                  /\ BeginNormalize(text)
             ELSE /\ suggestions' = remaining
                  /\ UNCHANGED <<normalizedOutput, missingCards, normalizerSuggestions,
                                 scryfallIndex, isLoading, error, runs>>
    /\ UNCHANGED <<stage, pipe>>

\* dismissSuggestion(searchedName), from the Dismiss button.
DismissSuggestion(j) ==
    /\ stage = "app"
    /\ j \in 1..Len(suggestions)
    /\ suggestions' = WithoutSuggestion(suggestions, suggestions[j].searchedName)
    /\ UNCHANGED <<stage, pipe, input, normalizedOutput, missingCards,
                   normalizerSuggestions, scryfallIndex, isLoading, error, runs>>

Init ==
    /\ stage = "app"
    /\ pipe = [text |-> ""]
    /\ AppInit

Next ==
    \/ \E text \in InputTexts : SetInput(text)
    \/ ClickNormalize
    \/ \E r \in 1..Len(runs) : BatchFailed(r)
    \/ \E r \in 1..Len(runs) : BatchAnswered(r)
    \/ \E r \in 1..Len(runs) : FuzzyAnswered(r)
    \/ \E r \in 1..Len(runs) : FuzzyDelayElapsed(r)
    \/ \E j \in 1..Len(suggestions) : ApplySuggestion(j)
    \/ \E j \in 1..Len(suggestions) : DismissSuggestion(j)

Spec == Init /\ [][Next]_vars

-----------------------------------------------------------------------------
(* SpecOverlap: the component when handleNormalize is also invoked while a *)
(* run is suspended at an external call.  handleNormalize and              *)
(* fetchAndBuildIndex test nothing but the text before they start; only    *)
(* the loading state of the button keeps the user from a second run.       *)

HandleNormalizeWhileLoading ==
    /\ stage = "app"
    /\ Trim(input) # ""
    /\ isLoading
    /\ Len(runs) < MaxRuns
    /\ BeginNormalize(input)
    /\ UNCHANGED <<stage, pipe, input>>

NextOverlap ==
    \/ Next
    \/ HandleNormalizeWhileLoading

SpecOverlap == Init /\ [][NextOverlap]_vars

-----------------------------------------------------------------------------
(* SpecCorrect: the text replacement of applySuggestion applied to texts *)

MaxCorrectLines == 3

CorrectLineChoices ==
    { "1 Counterspel", "2 counterspel", "1 Counterspell", "4 Lightnig Bolt",
      "2 Island", "Sideboard" }

\* (searchedName, suggestedName) of the suggestions the texts give rise to.
CorrectionChoices ==
    { <<"Counterspel", "Counterspell">>, <<"Lightnig Bolt", "Lightning Bolt">> }

InitCorrect ==
    /\ stage = "correction"
    /\ \E lines \in SeqsUpTo(CorrectLineChoices, MaxCorrectLines) :
       \E names \in CorrectionChoices :
          pipe = [text |-> Join(lines, "\n"),
                  searchedName |-> names[1], suggestedName |-> names[2]]
    /\ AppInit

Correct ==
    /\ stage = "correction"
    /\ stage' = "corrected"
    /\ pipe' = [text |-> pipe.text,
                searchedName |-> pipe.searchedName,
                suggestedName |-> pipe.suggestedName,
                result |-> ReplaceCardName(pipe.text, pipe.searchedName,
                                           pipe.suggestedName)]
    /\ UNCHANGED appVars

NextCorrect == Correct

SpecCorrect == InitCorrect /\ [][NextCorrect]_vars

-----------------------------------------------------------------------------
(* SpecPrint: printDeck applied to the cards normalizeDeckWithIndex makes  *)
(* of short lists of entries                                               *)

MaxPrintEntries == 3

\* The metadata the entries resolve to.
PrintCatalogue ==
    << Card("Preordain", "Sorcery", 1, "{U}", "Scry 2, then draw a card.", <<"U">>),
       Card("Ponder", "Sorcery", 1, "{U}", "", <<"U">>),
       Card("Rolling Thunder", "Sorcery", 2, "{X}{R}{R}", "", <<"R">>),
       Card("Deep Analysis", "Sorcery", 4, "{3}{U}", "", <<"U">>),
       Card("Lightning Bolt", "Instant", 1, "{R}", "", <<"R">>),
       Card("Warped Landscape", "Land", 0, "",
            "Sacrifice: Search your library for a basic land card.", <<>>),
       Card("Mountain", "Basic Land - Mountain", 0, "", "", <<"R">>),
       Card("Forest", "Basic Land - Forest", 0, "", "", <<"G">>),
       Card("Island", "Basic Land - Island", 0, "", "", <<"U">>),
       Card("Boros Garrison", "Land", 0, "",
            "Enters tapped. Return a land you control to its owner's hand.",
            <<"R", "W">>),
       Card("Vault of Whispers", "Artifact Land", 0, "", "", <<"B">>),
       Card("Bojuka Bog", "Land", 0, "", "Bojuka Bog enters tapped.", <<"B">>),
       Card("Quicksand", "Land", 0, "", "", <<>>),
       Card("Hydroblast", "Instant", 1, "{U}", "", <<"U">>),
       Card("Blue Elemental Blast", "Instant", 1, "{U}", "", <<"U">>),
       Card("Pyroblast", "Instant", 1, "{R}", "", <<"R">>),
       Card("Red Elemental Blast", "Instant", 1, "{R}", "", <<"R">>),
       Card("Raze", "Sorcery", 1, "{R}", "", <<"R">>) >>

PrintEntry(quantity, name, isSideboard) ==
    [quantity |-> quantity, name |-> name, isSideboard |-> isSideboard]

PrintEntryChoices ==
    { PrintEntry(4, "Preordain", FALSE), PrintEntry(4, "Ponder", FALSE),
      PrintEntry(1, "Rolling Thunder", FALSE), PrintEntry(2, "Deep Analysis", FALSE),
      PrintEntry(4, "Lightning Bolt", FALSE),
      PrintEntry(4, "Warped Landscape", FALSE), PrintEntry(4, "Mountain", FALSE),
      PrintEntry(4, "Forest", FALSE), PrintEntry(2, "Island", FALSE),
      PrintEntry(4, "Boros Garrison", FALSE),
      PrintEntry(4, "Vault of Whispers", FALSE), PrintEntry(4, "Bojuka Bog", FALSE),
      PrintEntry(4, "Quicksand", FALSE),
      PrintEntry(2, "Hydroblast", TRUE), PrintEntry(3, "Blue Elemental Blast", TRUE),
      PrintEntry(2, "Blue Elemental Blast", TRUE), PrintEntry(4, "Pyroblast", TRUE),
      PrintEntry(1, "Red Elemental Blast", TRUE), PrintEntry(1, "Raze", TRUE) }

InitPrint ==
    /\ stage = "entries"
    /\ \E entries \in SeqsUpTo(PrintEntryChoices, MaxPrintEntries) :
          pipe = [cards |-> normalizeDeckWithIndex(
                                entries, createScryfallIndex(PrintCatalogue)).value]
    /\ AppInit

PrintCards ==
    /\ stage = "entries"
    /\ stage' = "printedEntries"
    /\ pipe' = [cards |-> pipe.cards, printed |-> printDeck(pipe.cards)]
    /\ UNCHANGED appVars

NextPrint == PrintCards

SpecPrint == InitPrint /\ [][NextPrint]_vars

-----------------------------------------------------------------------------
(* SpecNormalizeCall: normalize(parsed) and the catch block of             *)
(* handleNormalize, with the index ref as an earlier fetchAndBuildIndex    *)
(* left it                                                                 *)

MaxNormalizeLines == 2

NormalizeLineChoices ==
    {"4 Lightning Bolt", "2 Island", "4 Myr Enforcer", "1 Kozilek, Butcher of Truth"}

NormalizeTexts ==
    {Join(lines, "\n") : lines \in SeqsUpTo(NormalizeLineChoices, MaxNormalizeLines) \ {<<>>}}

\* The index fetchAndBuildIndex stores for the names of a text: the cards
\* the service returns for them.
IndexBuiltFor(text) ==
    LET parsed == parseRawDeck(text)
        Asked(card) == \E c \in 1..Len(parsed) :
                           normalizeCardNameForLookup(parsed[c].name) = card.name
    IN createScryfallIndex(SelectSeq(ScryfallCatalogue, Asked))

InitNormalizeCall ==
    /\ stage = "indexHeld"
    /\ \E text \in NormalizeTexts : \E builtFor \in NormalizeTexts \cup {Null} :
          /\ pipe = [text |-> text, builtFor |-> builtFor]
          /\ scryfallIndex = IF builtFor = Null THEN NoIndex ELSE IndexBuiltFor(builtFor)
    /\ input = ""
    /\ normalizedOutput = ""
    /\ missingCards = <<>>
    /\ suggestions = <<>>
    /\ normalizerSuggestions = <<>>
    /\ isLoading = FALSE
    /\ error = NoError
    /\ runs = <<>>

\* normalizedOutput.value = normalize(parsed), and the catch block.
NormalizeAndCatch ==
    /\ stage = "indexHeld"
    /\ stage' = "normalizeCalled"
    /\ \E result \in {normalize(parseRawDeck(pipe.text), scryfallIndex)} :
          /\ pipe' = [text |-> pipe.text, builtFor |-> pipe.builtFor, result |-> result]
          /\ normalizedOutput' = IF result.threw THEN normalizedOutput ELSE result.value
          /\ missingCards' = IF result.threw
                             THEN CaughtMissingCards(result.message, missingCards)
                             ELSE missingCards
    /\ UNCHANGED <<input, suggestions, normalizerSuggestions, scryfallIndex,
                   isLoading, error, runs>>

NextNormalizeCall == NormalizeAndCatch

SpecNormalizeCall == InitNormalizeCall /\ [][NextNormalizeCall]_vars

-----------------------------------------------------------------------------
(* SpecBatch: the batch loop of fetchScryfallData over lists of card names *)
(* of up to two batches, every collection request answered ok              *)

MaxRepeatedNames == 2

\* The lists of names: names typed more than once, in another letter case
\* or with a back face; then as many different names as it takes to fill a
\* batch, or nearly; then a name typed before.
InitBatch ==
    /\ stage = "names"
    /\ \E first \in SeqsUpTo({"Island", "island", "Fire // Ice"}, MaxRepeatedNames) :
       \E n \in {0, BATCH_SIZE - 2, BATCH_SIZE - 1, BATCH_SIZE, BATCH_SIZE + 1} :
       \E last \in SeqsUpTo({"Island"}, 1) :
          pipe = [cardNames |-> first \o [j \in 1..n |-> "Card " \o NumberToString(j)]
                                \o last]
    /\ AppInit

\* const uniqueNames = [...new Set(cardNames)], before the loop.
StartBatches ==
    /\ stage = "names"
    /\ \E uniqueNames \in {Unique(pipe.cardNames)} :
          /\ pipe' = [cardNames |-> pipe.cardNames, uniqueNames |-> uniqueNames,
                      i |-> 0, requests |-> <<>>]
          /\ stage' = IF Len(uniqueNames) > 0 THEN "batching" ELSE "batched"
    /\ UNCHANGED appVars

\* One turn of the loop: the request for the batch at i.
SendBatch ==
    /\ stage = "batching"
    /\ pipe' = [pipe EXCEPT !.requests = Append(@, CollectionRequest(Batch(pipe))),
                            !.i = @ + BATCH_SIZE]
    /\ stage' = IF pipe.i + BATCH_SIZE < Len(pipe.uniqueNames)
                THEN "batching" ELSE "batched"
    /\ UNCHANGED appVars

NextBatch ==
    \/ StartBatches
    \/ SendBatch

SpecBatch == InitBatch /\ [][NextBatch]_vars

-----------------------------------------------------------------------------
(* Auto-correction whitelist: AUTOCORRECT_WHITELIST, shouldAutoApply *)

\* The Map from what the user types to the name to put in its place.  The
\* accented letters of the source are written with the accent after the
\* letter.
AUTOCORRECT_WHITELIST ==
    [searchedName \in {"Lorien Revealed", "Troll of Khazad-dum", "Troll of Khazad dum",
                       "Delver of Secrets", "The Modern Age", "Sagu Wildling",
                       "Tithing Blade"} |->
        CASE searchedName = "Lorien Revealed" -> "Lo'rien Revealed"
          [] searchedName = "Troll of Khazad-dum" -> "Troll of Khazad-du^m"
          [] searchedName = "Troll of Khazad dum" -> "Troll of Khazad-du^m"
          [] searchedName = "Delver of Secrets" -> "Delver of Secrets // Insectile Aberration"
          [] searchedName = "The Modern Age" -> "The Modern Age // Vector Glider"
          [] searchedName = "Sagu Wildling" -> "Sagu Wildling // Roost Seek"
          [] searchedName = "Tithing Blade" -> "Tithing Blade // Consuming Sepulcher"]

\* AUTOCORRECT_WHITELIST.get(searchedName) ?? null
getAutocorrectName(searchedName) ==
    IF searchedName \in DOMAIN AUTOCORRECT_WHITELIST
    THEN AUTOCORRECT_WHITELIST[searchedName] ELSE Null

\* shouldAutoApply: no handler of the component calls it.
shouldAutoApply(searchedName, suggestedName) ==
    /\ searchedName \in DOMAIN AUTOCORRECT_WHITELIST
    /\ AUTOCORRECT_WHITELIST[searchedName] = suggestedName

-----------------------------------------------------------------------------
(* Deck validation: validatePauperDeck *)

EXEMPT_LANDS ==
    {"Plains", "Island", "Swamp", "Mountain", "Forest", "Wastes",
     "Snow-Covered Plains", "Snow-Covered Island", "Snow-Covered Swamp",
     "Snow-Covered Mountain", "Snow-Covered Forest", "Snow-Covered Wastes"}

\* VALIDATION_MESSAGES; the accented letters of the source are written
\* without their accents.
mainDeckTooSmall(count) ==
    [type |-> "error",
     message |-> "Main deck deve contenere almeno 60 carte (attuale: "
                 \o NumberToString(count) \o ")"]

mainDeckTooLarge(count) ==
    [type |-> "warning",
     message |-> "Main deck contiene piu di 60 carte (attuale: "
                 \o NumberToString(count) \o ")."]

sideboardTooSmall(count) ==
    [type |-> "warning",
     message |-> "La Sideboard puo contenere fino a 15 carte (attuale: "
                 \o NumberToString(count) \o ")"]

sideboardTooLarge(count) ==
    [type |-> "error",
     message |-> "La Sideboard non puo contenere piu di 15 carte (attuale: "
                 \o NumberToString(count) \o ")"]

tooManyCopies(cardName, count) ==
    [type |-> "error",
     message |-> "\"" \o cardName \o "\" supera il limite di 4 copie (attuale: "
                 \o NumberToString(count) \o ")"]

\* cardCounts.get(card.name) || 0
CountOf(cardCounts, name) ==
    IF name \in DOMAIN cardCounts THEN cardCounts[name] ELSE 0

\* The single pass over the cards: the two counts, the running count of
\* every name that is not exempt, and an error whenever a running count is
\* above 4.
RECURSIVE ValidateLoop(_, _)
ValidateLoop(cards, acc) ==
    IF cards = <<>> THEN acc
    ELSE LET card == Head(cards)
             counted == IF card.isSideboard
                        THEN [acc EXCEPT !.sideboardCount = @ + card.quantity]
                        ELSE [acc EXCEPT !.mainDeckCount = @ + card.quantity]
             currentCount == CountOf(acc.cardCounts, card.name) + card.quantity
         IN IF card.name \in EXEMPT_LANDS THEN ValidateLoop(Tail(cards), counted)
            ELSE ValidateLoop(Tail(cards),
                   [counted EXCEPT
                      !.errors = IF currentCount > 4
                                 THEN Append(@, tooManyCopies(card.name, currentCount))
                                 ELSE @,
                      !.cardCounts = MapSet(@, card.name, currentCount)])

\* Rule 1 with 60 cards counted as too few.
MainDeckIsTooSmallAtSixty(mainDeckCount) == mainDeckCount <= 60

\* Rule 1: mainDeckCount < 60
MainDeckIsTooSmall(mainDeckCount) == mainDeckCount < 60

validatePauperDeck(cards) ==
    LET pass == ValidateLoop(cards, [mainDeckCount |-> 0, sideboardCount |-> 0,
                                     cardCounts |-> EmptyMap, errors |-> <<>>])
        main == pass.mainDeckCount
        side == pass.sideboardCount
        errors1 == IF MainDeckIsTooSmall(main)
                   THEN Append(pass.errors, mainDeckTooSmall(main)) ELSE pass.errors
        warnings1 == IF main > 60 THEN <<mainDeckTooLarge(main)>> ELSE <<>>
        errors == IF side > 0 /\ side # 15 /\ ~(side < 15)
                  THEN Append(errors1, sideboardTooLarge(side)) ELSE errors1
        warnings == IF side > 0 /\ side # 15 /\ side < 15
                    THEN Append(warnings1, sideboardTooSmall(side)) ELSE warnings1
    IN [isValid |-> Len(errors) = 0,
        errors |-> errors,
        warnings |-> warnings,
        stats |-> [mainDeckCount |-> main, sideboardCount |-> side,
                   totalCards |-> main + side]]

-----------------------------------------------------------------------------
(* SpecValidate: validatePauperDeck applied to parsed lists *)

MaxValidateEntries == 3

ParsedCard(quantity, name, isSideboard) ==
    [quantity |-> quantity, name |-> name, isSideboard |-> isSideboard]

ValidateEntryChoices ==
    { ParsedCard(56, "Island", FALSE),
      ParsedCard(4, "Lightning Bolt", FALSE),
      ParsedCard(3, "Lightning Bolt", FALSE),
      ParsedCard(1, "Lightning Bolt", FALSE),
      ParsedCard(5, "Snow-Covered Wastes", FALSE),
      ParsedCard(1, "Counterspell", FALSE),
      ParsedCard(2, "Lightning Bolt", TRUE),
      ParsedCard(13, "Island", TRUE),
      ParsedCard(16, "Snow-Covered Island", TRUE),
      ParsedCard(4, "Counterspell", TRUE) }

InitValidate ==
    /\ stage = "cards"
    /\ pipe \in {[cards |-> cards] : cards \in SeqsUpTo(ValidateEntryChoices, MaxValidateEntries)}
    /\ AppInit

Validate ==
    /\ stage = "cards"
    /\ stage' = "validated"
    /\ pipe' = [cards |-> pipe.cards, result |-> validatePauperDeck(pipe.cards)]
    /\ UNCHANGED appVars

NextValidate == Validate

SpecValidate == InitValidate /\ [][NextValidate]_vars

-----------------------------------------------------------------------------
(* Claims about the line parser *)

\* The lines of the pasted text, as the user sees them.
TextLines == Split(pipe.text, "\n")

\* A line matches ^(\d+)\s+(.+)$ when it splits into at least one digit, at
\* least one white-space character and a non-empty rest free of terminators.
MatchesCardPattern(line) ==
    \E d \in 1..Len(line) : \E w \in 1..Len(line) :
        /\ d + w < Len(line)
        /\ \A i \in 1..d : IsDigit(Char(line, i))
        /\ \A i \in (d + 1)..(d + w) : IsSpace(Char(line, i))
        /\ \A i \in (d + w + 1)..Len(line) : ~IsLineTerminator(Char(line, i))

CardLineNumbers == {i \in 1..Len(TextLines) : MatchesCardPattern(Trim(TextLines[i]))}

MarkerBefore(i) ==
    \E j \in 1..(i - 1) :
        ToLowerCase(Trim(TextLines[j])) \in {"sideboard", "sideboard:"}

\* C1: parseRawDeck emits exactly one ParsedCard per line that, trimmed,
\* matches ^(\d+)\s+(.+)$, in line order and without merging names; all other
\* lines emit nothing; an entry is a sideboard entry if and only if an earlier
\* line, trimmed, is "sideboard" or "sideboard:" in any letter case.
C1_ParserContract ==
    stage = "parsed" =>
        /\ Len(pipe.cards) = Cardinality(CardLineNumbers)
        /\ \A i \in CardLineNumbers :
              LET k    == Cardinality({j \in CardLineNumbers : j <= i})
                  line == Trim(TextLines[i])
                  card == pipe.cards[k]
              IN /\ card.isSideboard = MarkerBefore(i)
                 /\ Len(card.name) < Len(line)
                 /\ SubSeq(line, Len(line) - Len(card.name) + 1, Len(line)) = card.name

\* A deck whose name occurs on both sides of a "sideboard:" delimiter.
C1_Witness ==
    /\ stage = "parsed"
    /\ Includes(pipe.text, "sideboard:")
    /\ Len(pipe.cards) = 2
    /\ pipe.cards[1].name = pipe.cards[2].name
    /\ ~pipe.cards[1].isSideboard
    /\ pipe.cards[2].isSideboard

-----------------------------------------------------------------------------
(* Claims about the classifier, the normalizer and the printer *)

SectionPriority == <<"Creature", "Land", "Instant", "Sorcery", "Enchantment", "Artifact">>

\* The first keyword of the priority chain the type line contains, Sorcery
\* when it contains none; Sideboard for a sideboard entry.
FirstMatchOrSorcery(typeLine, isSideboard) ==
    LET hits == {i \in 1..Len(SectionPriority) : Includes(typeLine, SectionPriority[i])}
    IN IF isSideboard THEN "Sideboard"
       ELSE IF hits = {} THEN "Sorcery"
       ELSE SectionPriority[CHOOSE i \in hits : \A j \in hits : i <= j]

\* C5: the classifier returns the first match of Sideboard > Creature > Land
\* > Instant > Sorcery > Enchantment > Artifact, and Sorcery when no keyword
\* matches, so the result is always one of the seven sections.
C5_SectionPriorityChain ==
    stage = "classified" =>
        /\ pipe.section = FirstMatchOrSorcery(pipe.typeLine, pipe.isSideboard)
        /\ \E i \in 1..Len(PRINT_ORDER) : PRINT_ORDER[i] = pipe.section

\* How often the pair (quantity, name) occurs in a card sequence.
PairCount(cards, quantity, name) ==
    Cardinality({i \in 1..Len(cards) :
                    cards[i].quantity = quantity /\ cards[i].name = name})

SamePairs(as, bs) ==
    \A cs \in {as, bs} : \A i \in 1..Len(cs) :
        PairCount(as, cs[i].quantity, cs[i].name)
            = PairCount(bs, cs[i].quantity, cs[i].name)

\* C2: re-parsing the printed text yields the same multiset of (quantity,
\* name) pairs as the NormalizedCard sequence given to the printer.
C2_PrintParseRoundTrip ==
    stage = "reparsed" => SamePairs(pipe.normalized.value, pipe.reparsed)

\* C3: the text printed by a successful run, parsed, normalized with the same
\* index and printed again, is the same text.
C3_PipelineIdempotent ==
    stage = "reprinted" => pipe.reprinted = pipe.printed

\* A second pass over a deck whose lines the sorter had to reorder: two lines
\* for one creature, and both functional reprints in the sideboard.
C3_Witness ==
    /\ stage = "reprinted"
    /\ pipe.text = "2 Myr Enforcer\n4 Myr Enforcer\n\nSideboard\n2 Hydroblast\n3 Blue Elemental Blast"
    /\ pipe.printed = "Creatures\n2 Myr Enforcer\n4 Myr Enforcer\n\nSideboard\n3 Blue Elemental Blast\n2 Hydroblast"

\* The text of a name before its first "//", trimmed.
FrontFaceKey(name) ==
    LET i == IndexOf(name, "//")
    IN IF i = 0 THEN Trim(name) ELSE Trim(SubSeq(name, 1, i - 1))

UnresolvedEntries(parsed, index) ==
    LET Absent(c) == FrontFaceKey(c.name) \notin DOMAIN index
    IN SelectSeq(parsed, Absent)

\* C4: the normalizer examines every entry; if the front-face key of some
\* entry is absent from the index it throws one error naming every such
\* entry and returns nothing; otherwise it returns one NormalizedCard per
\* entry, in parse order.
C4_CollectAllMissing ==
    stage \in {"normalized", "failed"} =>
        LET unresolved == UnresolvedEntries(pipe.parsed, pipe.index)
            names == [i \in 1..Len(unresolved) |-> unresolved[i].name]
            result == pipe.normalized
        IN IF Len(unresolved) > 0
           THEN /\ result.threw
                /\ "value" \notin DOMAIN result
                /\ result.message = "Missing Scryfall data for: " \o Join(names, ", ")
           ELSE /\ ~result.threw
                /\ Len(result.value) = Len(pipe.parsed)
                /\ \A i \in 1..Len(pipe.parsed) :
                      /\ result.value[i].name = pipe.parsed[i].name
                      /\ result.value[i].quantity = pipe.parsed[i].quantity
                      /\ result.value[i].isSideboard = pipe.parsed[i].isSideboard

\* A run that fails on two different names, one in each half of the deck.
C4_Witness ==
    /\ stage = "failed"
    /\ pipe.normalized.threw
    /\ Includes(pipe.normalized.message, "Lightnig Bolt, Counterspel")

-----------------------------------------------------------------------------
(* Claims about the resolver and the component *)

\* A run whose fetchScryfallData call has reached the fuzzy loop or ended.
PastBatches(run) == run.pc \in {"fuzzy", "fuzzyDelay"} \/ run.returned
                    \/ (run.pc = "failed" /\ Len(run.answers) > 0)

\* A run whose fetchScryfallData call has returned, or thrown after its
\* fuzzy loop.
FetchEnded(run) == run.returned \/ (run.pc = "failed" /\ Len(run.answers) > 0)

\* The names of the fuzzy lookups sent so far, in order.
FuzzyLookups(run) ==
    LET IsFuzzy(q) == q.kind = "fuzzy"
        sent == SelectSeq(run.requests, IsFuzzy)
    IN [j \in 1..Len(sent) |-> sent[j].name]

\* The names of the deck, without repetition and in order, for which no
\* collection response held a card of exactly the name asked for.
NotReturnedExactly(run) ==
    LET names == [j \in 1..Len(run.parsed) |-> run.parsed[j].name]
        First(j) == \A h \in 1..(j - 1) : names[h] # names[j]
        Exact(j) == \E c \in 1..Len(run.collected) :
                        run.collected[c].name = FrontFaceKey(names[j])
        Retried(j) == First(j) /\ ~Exact(j)
        picked == {j \in 1..Len(names) : Retried(j)}
        Rank(j) == Cardinality({h \in picked : h <= j})
    IN [n \in 1..Cardinality(picked) |-> names[CHOOSE j \in picked : Rank(j) = n]]

\* The answers of the fuzzy loop, each with the name it was asked for.
Answered(run) ==
    {[name |-> NotReturnedExactly(run)[j], answer |-> run.answers[j]] :
        j \in 1..Len(run.answers)}

\* The found answers the classification of which is by "same": those whose
\* returned name is, or is not, the same as the name asked for.
FoundWhere(run, Same(_, _), same) ==
    LET names == NotReturnedExactly(run)
        At(j) == /\ run.answers[j].found
                 /\ Same(names[j], run.answers[j].card.name) = same
        picked == {j \in 1..Len(run.answers) : At(j)}
        Rank(j) == Cardinality({h \in picked : h <= j})
    IN [n \in 1..Cardinality(picked) |->
          LET j == CHOOSE j \in picked : Rank(j) = n
          IN [searchedName |-> names[j], suggestedCard |-> run.answers[j].card]]

\* What a run holds when found answers are classified by Same: the cards
\* of the answers of the same name follow the collected cards in allCards,
\* and the other found answers are the suggestions, each list in the order
\* of the lookups.
ClassifiedBy(run, Same(_, _)) ==
    LET direct  == FoundWhere(run, Same, TRUE)
        suggest == FoundWhere(run, Same, FALSE)
    IN /\ run.allCards
            = run.collected \o [n \in 1..Len(direct) |-> direct[n].suggestedCard]
       /\ run.suggestions = suggest

SameAsTyped(name, returned) == name = returned

SameAsFrontFace(name, returned) == FrontFaceKey(name) = returned

\* C6 as stated: a found fuzzy answer is classified by comparing the
\* returned name with the front-face normalization of the queried name.
C6_ClassifiedByFrontFace ==
    \A r \in 1..Len(runs) :
        (stage = "app" /\ PastBatches(runs[r])) => ClassifiedBy(runs[r], SameAsFrontFace)

\* C6, amended: a found fuzzy answer is classified by comparing the returned
\* name with the name as typed, exactly and case-sensitively; an equal name
\* adds the card to the resolved cards and emits no suggestion, a different
\* name emits a CardSuggestion {searchedName, suggestedCard} instead.
C6_ClassifiedByTypedName ==
    \A r \in 1..Len(runs) :
        (stage = "app" /\ PastBatches(runs[r])) => ClassifiedBy(runs[r], SameAsTyped)

\* A lookup of a two-faced name typed in full was answered with that name,
\* and a lookup of a name typed in lower case with the capitalised name.
C6_Witness ==
    /\ stage = "app"
    /\ \E r \in 1..Len(runs) : \E a \in Answered(runs[r]) :
          /\ a.answer.found
          /\ a.answer.card.name = a.name
          /\ FrontFaceKey(a.name) # a.name
    /\ \E r \in 1..Len(runs) : \E a \in Answered(runs[r]) :
          /\ a.answer.found
          /\ a.answer.card.name # a.name
          /\ ToLowerCase(a.answer.card.name) = ToLowerCase(a.name)

\* C7: after fetchAndBuildIndex returns, the index holds no card that came
\* from a suggestion not yet accepted, and no entry of the deck resolves
\* through the card of such a suggestion.
C7_IndexWithoutPendingSuggestions ==
    (stage = "app" /\ Len(runs) > 0 /\ runs[Len(runs)].returned) =>
        LET run == runs[Len(runs)]
        IN /\ \A key \in DOMAIN scryfallIndex :
                \E c \in 1..Len(run.allCards) : run.allCards[c] = scryfallIndex[key]
           /\ \A j \in 1..Len(run.parsed) : \A g \in 1..Len(normalizerSuggestions) :
                (/\ normalizerSuggestions[g].searchedName = run.parsed[j].name
                 /\ FrontFaceKey(run.parsed[j].name) \in DOMAIN scryfallIndex)
                => scryfallIndex[FrontFaceKey(run.parsed[j].name)]
                       # normalizerSuggestions[g].suggestedCard

\* C8: every distinct name no collection response returned exactly is looked
\* up once, in order, also after a lookup that found nothing; when a lookup
\* found nothing the call throws once, after the last lookup, a message that
\* names every name not found, and returns nothing.
C8_RetryAllThenFailOnce ==
    \A r \in 1..Len(runs) :
        LET run == runs[r]
            names == NotReturnedExactly(run)
            lookups == FuzzyLookups(run)
            missed == {a \in Answered(run) : ~a.answer.found}
        IN (stage = "app" /\ PastBatches(run)) =>
              /\ Len(lookups) <= Len(names)
              /\ \A j \in 1..Len(lookups) : lookups[j] = FrontFaceKey(names[j])
              /\ (run.returned \/ run.pc = "failed") =>
                    /\ Len(lookups) = Len(names)
                    /\ Len(run.answers) = Len(names)
                    /\ run.returned <=> missed = {}
                    /\ missed # {} =>
                          /\ \A a \in missed : Includes(run.thrown, "* " \o a.name)
                          /\ run.fetchedSuggestions = <<>>
              /\ (run.pc \in {"fuzzy", "fuzzyDelay"}) => run.thrown = NoError

\* A run failed whose first two lookups found nothing and whose third was
\* still made.
C8_Witness ==
    /\ stage = "app"
    /\ \E r \in 1..Len(runs) :
          /\ runs[r].pc = "failed"
          /\ Len(runs[r].answers) = 3
          /\ ~runs[r].answers[1].found
          /\ ~runs[r].answers[2].found
          /\ Len(runs[r].stillNotFound) >= 2

\* C9: every suggestion a fuzzy lookup of a run produced has reached the
\* caller when the run has ended, also when the run failed for a name not
\* found.
C9_NoSuggestionDropped ==
    \A r \in 1..Len(runs) :
        (stage = "app" /\ FetchEnded(runs[r])) =>
            \A a \in Answered(runs[r]) :
                (a.answer.found /\ a.answer.card.name # a.name) =>
                    \E g \in 1..Len(runs[r].fetchedSuggestions) :
                        /\ runs[r].fetchedSuggestions[g].searchedName = a.name
                        /\ runs[r].fetchedSuggestions[g].suggestedCard = a.answer.card

\* C10: when the last handleNormalize invocation has ended in failure,
\* normalizedOutput is empty.
C10_FailureLeavesNoOutput ==
    (stage = "app" /\ Len(runs) > 0 /\ runs[Len(runs)].pc = "failed")
        => normalizedOutput = ""

\* A run that printed a deck was followed by a run that failed for names
\* the resolver did not find.
C10_Witness ==
    /\ stage = "app"
    /\ Len(runs) = 2
    /\ runs[1].pc = "done"
    /\ runs[2].pc = "failed"
    /\ Len(runs[2].stillNotFound) > 0
    /\ normalizedOutput = ""

\* C11: a response that is not ok (other than the fuzzy endpoint's 404 for a
\* name it knows no card for) is fatal to the run, for a collection request
\* and for a fuzzy lookup alike: no request follows it, the run fails with
\* an error that wraps the status, and the name is not reported as not found.
C11_NonSuccessIsFatal ==
    \A r \in 1..Len(runs) :
        LET run == runs[r]
        IN stage = "app" =>
             \A j \in 1..Len(run.responses) :
                (~run.responses[j].ok /\ run.responses[j].status # 404) =>
                   /\ j = Len(run.requests)
                   /\ run.pc = "failed"
                   /\ ~run.returned
                   /\ Includes(run.thrown, "Scryfall API error: "
                                           \o NumberToString(run.responses[j].status))
                   /\ run.requests[j].kind = "fuzzy" =>
                         \A n \in 1..Len(run.stillNotFound) :
                            FrontFaceKey(run.stillNotFound[n]) # run.requests[j].name

-----------------------------------------------------------------------------
(* Claims about the validator *)

\* The sum of the quantities of the entries at the given positions.
RECURSIVE TotalAt(_, _)
TotalAt(cards, positions) ==
    IF positions = {} THEN 0
    ELSE LET i == CHOOSE i \in positions : TRUE
         IN cards[i].quantity + TotalAt(cards, positions \ {i})

BasicLandNames ==
    {"Plains", "Island", "Swamp", "Mountain", "Forest", "Wastes"}
    \cup {"Snow-Covered " \o n :
            n \in {"Plains", "Island", "Swamp", "Mountain", "Forest", "Wastes"}}

\* The findings whose message starts with the given words.
FindingsStarting(findings, words) ==
    {i \in 1..Len(findings) :
        /\ Len(findings[i].message) >= Len(words)
        /\ SubSeq(findings[i].message, 1, Len(words)) = words}

CopiesOf(cards, name) ==
    TotalAt(cards, {i \in 1..Len(cards) : cards[i].name = name})

\* C12: for every name of the list the errors hold exactly one copy-limit
\* error, carrying the name's total over the whole list, when the name is
\* not a basic land and the total exceeds 4, and none otherwise.
C12_OneCopyLimitErrorPerName ==
    stage = "validated" =>
        \A c \in 1..Len(pipe.cards) :
            LET name == pipe.cards[c].name
                total == CopiesOf(pipe.cards, name)
                found == FindingsStarting(pipe.result.errors,
                                          "\"" \o name \o "\" supera il limite")
            IN IF name \notin BasicLandNames /\ total > 4
               THEN /\ Cardinality(found) = 1
                    /\ \A i \in found :
                          pipe.result.errors[i].message
                            = "\"" \o name \o "\" supera il limite di 4 copie (attuale: "
                              \o NumberToString(total) \o ")"
               ELSE found = {}

\* C13: the size findings follow from mainDeckCount and sideboardCount
\* alone: below 60 one error, 60 nothing, above 60 one warning; sideboard 0
\* or 15 nothing, 1..14 one warning, above 15 one error; and isValid is
\* true exactly when there is no error.
C13_SizeFindings ==
    stage = "validated" =>
        LET cards == pipe.cards
            main == TotalAt(cards, {i \in 1..Len(cards) : ~cards[i].isSideboard})
            side == TotalAt(cards, {i \in 1..Len(cards) : cards[i].isSideboard})
            errors == pipe.result.errors
            warnings == pipe.result.warnings
            Count(findings, words) == Cardinality(FindingsStarting(findings, words))
        IN /\ pipe.result.stats.mainDeckCount = main
           /\ pipe.result.stats.sideboardCount = side
           /\ Count(errors, "Main deck") = (IF main < 60 THEN 1 ELSE 0)
           /\ Count(warnings, "Main deck") = (IF main > 60 THEN 1 ELSE 0)
           /\ Count(errors, "La Sideboard") = (IF side > 15 THEN 1 ELSE 0)
           /\ Count(warnings, "La Sideboard") = (IF side \in 1..14 THEN 1 ELSE 0)
           /\ \A i \in 1..Len(errors) : errors[i].type = "error"
           /\ \A i \in 1..Len(warnings) : warnings[i].type = "warning"
           /\ pipe.result.isValid <=> (errors = <<>>)

\* A list of exactly 60 main-deck cards and a sideboard short of 15 was
\* validated: valid, with the one sideboard warning.
C13_Witness ==
    /\ stage = "validated"
    /\ pipe.result.stats.mainDeckCount = 60
    /\ pipe.result.stats.sideboardCount \in 1..14
    /\ pipe.result.isValid
    /\ Len(pipe.result.warnings) = 1

-----------------------------------------------------------------------------
(* Claims about suggestions and corrections *)

\* The pairs (typed name, name to put in its place) accepted without asking.
WhitelistPairs ==
    { <<"Lorien Revealed", "Lo'rien Revealed">>,
      <<"Troll of Khazad-dum", "Troll of Khazad-du^m">>,
      <<"Troll of Khazad dum", "Troll of Khazad-du^m">>,
      <<"Delver of Secrets", "Delver of Secrets // Insectile Aberration">>,
      <<"The Modern Age", "The Modern Age // Vector Glider">>,
      <<"Sagu Wildling", "Sagu Wildling // Roost Seek">>,
      <<"Tithing Blade", "Tithing Blade // Consuming Sepulcher">> }

AutoAccepted(sg) == <<sg.searchedName, sg.suggestedCard.name>> \in WhitelistPairs

\* C14: when a run hands its suggestions to the component, those whose
\* (searchedName, suggestedName) pair is in the whitelist are applied to the
\* input text and are not listed for review; every other one is listed.
C14_WhitelistAutoAccept ==
    [][\A r \in 1..Len(runs) :
          (stage = "app" /\ ~runs[r].returned /\ runs'[r].returned) =>
              LET fetched == runs'[r].fetchedSuggestions
                  Manual(sg) == ~AutoAccepted(sg)
              IN /\ suggestions' = SelectSeq(fetched, Manual)
                 /\ \A g \in 1..Len(fetched) :
                       AutoAccepted(fetched[g]) =>
                          LET cards == parseRawDeck(input')
                          IN \A c \in 1..Len(cards) :
                                cards[c].name # fetched[g].searchedName
      ]_vars

\* The quantity and the white space a line starts with, when what follows
\* them is the whole of the line and equals name up to letter case.
IsLineOfName(line, name) ==
    LET d    == DigitPrefixLen(line)
        rest == SubSeq(line, d + 1, Len(line))
        w    == SpacePrefixLen(rest)
    IN /\ d >= 1
       /\ w >= 1
       /\ ToLowerCase(Trim(SubSeq(rest, w + 1, Len(rest)))) = ToLowerCase(name)

CorrectedLine(line, searchedName, suggestedName) ==
    IF IsLineOfName(line, searchedName)
    THEN LET d == DigitPrefixLen(line)
             w == SpacePrefixLen(SubSeq(line, d + 1, Len(line)))
         IN SubSeq(line, 1, d + w) \o suggestedName
    ELSE line

\* C15: applying a correction rewrites every line "<quantity> <searchedName>"
\* (the name compared case-insensitively and as a whole name) to
\* "<quantity> <suggestedName>" and leaves every other line as it was, a line
\* whose name only begins with searchedName included.
C15_WholeNameLinesRewritten ==
    stage = "corrected" =>
        LET before == Split(pipe.text, "\n")
            after  == Split(pipe.result, "\n")
        IN /\ Len(after) = Len(before)
           /\ \A i \in 1..Len(before) :
                 after[i] = CorrectedLine(before[i], pipe.searchedName,
                                          pipe.suggestedName)

-----------------------------------------------------------------------------
(* Claims about the printed deck *)

SectionsInPrintOrder ==
    <<"Creature", "Instant", "Sorcery", "Artifact", "Enchantment", "Land",
      "Sideboard">>

HeaderOf(section) ==
    CASE section = "Creature"    -> "Creatures"
      [] section = "Instant"     -> "Instants"
      [] section = "Sorcery"     -> "Sorceries"
      [] section = "Artifact"    -> "Artifacts"
      [] section = "Enchantment" -> "Enchantment"
      [] section = "Land"        -> "Lands"
      [] section = "Sideboard"   -> "Sideboard"

CardsOfSection(cards, section) ==
    {i \in 1..Len(cards) : cards[i].section = section}

\* The sections that have a card, in print order.
PresentSections(cards) ==
    LET Present(section) == CardsOfSection(cards, section) # {}
    IN SelectSeq(SectionsInPrintOrder, Present)

\* The number of lines above the header of the k-th present section: each
\* section before it takes a header, a line per card and a blank line.
RECURSIVE LinesBefore(_, _, _)
LinesBefore(cards, present, k) ==
    IF k = 1 THEN 0
    ELSE LinesBefore(cards, present, k - 1)
         + Cardinality(CardsOfSection(cards, present[k - 1])) + 2

OwnLine(card) == NumberToString(card.quantity) \o " " \o card.name

\* C16: the printed text is made of the sections that have cards, in the
\* order Creature, Instant, Sorcery, Artifact, Enchantment, Land, Sideboard:
\* a header line, then one "<quantity> <name>" line for each card of the
\* section; one blank line between two sections, none at either end, and
\* nothing for a section without cards.
C16_PrintedLayout ==
    stage = "printedEntries" =>
        LET cards   == pipe.cards
            present == PresentSections(cards)
            lines   == Split(pipe.printed, "\n")
        IN IF Len(present) = 0 THEN pipe.printed = ""
           ELSE /\ Len(lines) = LinesBefore(cards, present, Len(present) + 1) - 1
                /\ \A k \in 1..Len(present) :
                      LET members == CardsOfSection(cards, present[k])
                          top     == LinesBefore(cards, present, k) + 1
                          block   == top + 1 .. top + Cardinality(members)
                      IN /\ lines[top] = HeaderOf(present[k])
                         /\ k < Len(present) => lines[top + Cardinality(members) + 1] = ""
                         /\ \A m \in members :
                               Cardinality({l \in block : lines[l] = OwnLine(cards[m])})
                               = Cardinality({n \in members :
                                                 OwnLine(cards[n]) = OwnLine(cards[m])})

\* Cards of three sections were printed, a section in between having none.
C16_Witness ==
    /\ stage = "printedEntries"
    /\ Len(PresentSections(pipe.cards)) = 3
    /\ CardsOfSection(pipe.cards, "Instant") # {}
    /\ CardsOfSection(pipe.cards, "Sorcery") = {}
    /\ CardsOfSection(pipe.cards, "Sideboard") # {}

\* The lines printed under a header, up to the next blank line.
PrintedBlock(header) ==
    LET lines == Split(pipe.printed, "\n")
        heads == {h \in 1..Len(lines) : lines[h] = header}
    IN IF heads = {} THEN <<>>
       ELSE LET top  == CHOOSE h \in heads : \A other \in heads : h <= other
                ends == {e \in top + 1 .. Len(lines) + 1 :
                            e = Len(lines) + 1 \/ lines[e] = ""}
                end  == CHOOSE e \in ends : \A other \in ends : e <= other
            IN SubSeq(lines, top + 1, end - 1)

\* The quantity and the name a printed line shows.
PrintedEntry(line) ==
    LET d == DigitPrefixLen(line)
    IN [quantity |-> ParseInt(SubSeq(line, 1, d)),
        name |-> SubSeq(line, d + 2, Len(line))]

PrintedEntries(header) ==
    LET lines == PrintedBlock(header)
    IN [i \in 1..Len(lines) |-> PrintedEntry(lines[i])]

\* Every card of the section is printed once, as its own quantity and name.
PrintsOwnLines(section) ==
    LET members == CardsOfSection(pipe.cards, section)
        lines   == PrintedBlock(HeaderOf(section))
    IN /\ Len(lines) = Cardinality(members)
       /\ \A m \in members :
             Cardinality({l \in 1..Len(lines) : lines[l] = OwnLine(pipe.cards[m])})
             = Cardinality({n \in members :
                               OwnLine(pipe.cards[n]) = OwnLine(pipe.cards[m])})

NameAscending(a, b) == localeCompare(a, b) < 0

CanonicalOf(name) ==
    CASE name = "Blue Elemental Blast" -> "Hydroblast"
      [] name = "Red Elemental Blast"  -> "Pyroblast"
      [] OTHER -> name

RECURSIVE GroupQuantityUpTo(_, _, _)
GroupQuantityUpTo(entries, canonical, k) ==
    IF k = 0 THEN 0
    ELSE GroupQuantityUpTo(entries, canonical, k - 1)
         + (IF CanonicalOf(entries[k].name) = canonical THEN entries[k].quantity ELSE 0)

GroupQuantity(entries, i) ==
    GroupQuantityUpTo(entries, CanonicalOf(entries[i].name), Len(entries))

\* entries[i] may stand above entries[j] in the Sideboard section.
SideboardOrdered(entries, i, j) ==
    LET gi == GroupQuantity(entries, i)
        gj == GroupQuantity(entries, j)
        ci == CanonicalOf(entries[i].name)
        cj == CanonicalOf(entries[j].name)
    IN \/ gi > gj
       \/ gi = gj /\ NameAscending(ci, cj)
       \/ gi = gj /\ ci = cj /\ entries[i].quantity > entries[j].quantity
       \/ gi = gj /\ ci = cj /\ entries[i].quantity = entries[j].quantity
             /\ ~NameAscending(entries[j].name, entries[i].name)

\* C17: the Sideboard section lists its cards by combined quantity of their
\* functional-reprint group, largest first, then by canonical name, then
\* inside a group by own quantity, largest first, and by name; each line
\* shows the card's own quantity and name.
C17_SideboardOrder ==
    stage = "printedEntries" =>
        LET entries == PrintedEntries("Sideboard")
        IN /\ PrintsOwnLines("Sideboard")
           /\ \A i, j \in 1..Len(entries) : i < j => SideboardOrdered(entries, i, j)

\* A group of two reprints, 3 and 2 copies, printed above a card of 4 copies.
C17_Witness ==
    /\ stage = "printedEntries"
    /\ PrintedBlock("Sideboard")
          = <<"3 Blue Elemental Blast", "2 Hydroblast", "4 Pyroblast">>

LandOrder ==
    <<"Bounceland", "ArtifactBi", "ArtifactMono", "Gate", "Fixer", "TaplandBi",
      "TaplandMono", "Fetch", "Basic", "Other">>

LandRank(category) == CHOOSE r \in 1..Len(LandOrder) : LandOrder[r] = category

\* The category the normalizer gave the land of this name.
CategoryOfLand(name) ==
    LET m == CHOOSE i \in CardsOfSection(pipe.cards, "Land") : pipe.cards[i].name = name
    IN pipe.cards[m].landCategory

\* entries[i] may stand above entries[j] in the Land section.
LandOrdered(entries, i, j) ==
    LET ri == LandRank(CategoryOfLand(entries[i].name))
        rj == LandRank(CategoryOfLand(entries[j].name))
    IN \/ ri < rj
       \/ ri = rj /\ entries[i].quantity > entries[j].quantity
       \/ ri = rj /\ entries[i].quantity = entries[j].quantity
             /\ ~NameAscending(entries[j].name, entries[i].name)

\* C18: the Land section lists its cards by category rank (Bounceland,
\* ArtifactBi, ArtifactMono, Gate, Fixer, TaplandBi, TaplandMono, Fetch,
\* Basic, Other), then by quantity, largest first, then by name.
C18_LandOrder ==
    stage = "printedEntries" =>
        LET entries == PrintedEntries("Lands")
        IN /\ PrintsOwnLines("Land")
           /\ \A i, j \in 1..Len(entries) : i < j => LandOrdered(entries, i, j)

\* A Fetch, a Basic and a Bounceland, 4 copies each, entered in that order
\* and printed as Bounceland, Fetch, Basic.
C18_Witness ==
    /\ stage = "printedEntries"
    /\ Len(pipe.cards) = 3
    /\ pipe.cards[1].landCategory = "Fetch"
    /\ pipe.cards[2].landCategory = "Basic"
    /\ pipe.cards[3].landCategory = "Bounceland"
    /\ PrintedBlock("Lands")
          = <<"4 Boros Garrison", "4 Warped Landscape", "4 Mountain">>

OtherSections == {"Creature", "Instant", "Sorcery", "Artifact", "Enchantment"}

\* The card of the section that has this name.
CardNamed(section, name) ==
    LET m == CHOOSE i \in CardsOfSection(pipe.cards, section) : pipe.cards[i].name = name
    IN pipe.cards[m]

HasXCost(card) == Includes(card.mana_cost, "X")

\* entries[i] may stand above entries[j] in a section of OtherSections.
CostOrdered(section, entries, i, j) ==
    LET a == CardNamed(section, entries[i].name)
        b == CardNamed(section, entries[j].name)
    IN \/ ~HasXCost(a) /\ HasXCost(b)
       \/ HasXCost(a) = HasXCost(b) /\ a.cmc < b.cmc
       \/ HasXCost(a) = HasXCost(b) /\ a.cmc = b.cmc
             /\ ~NameAscending(b.name, a.name)

\* C19: in every section but Land and Sideboard the cards with X in their
\* mana cost come after all the others, whatever their cmc; cards alike in
\* that are listed by cmc, smallest first, then by name.
C19_CostOrder ==
    stage = "printedEntries" =>
        \A section \in OtherSections :
            LET entries == PrintedEntries(HeaderOf(section))
            IN /\ PrintsOwnLines(section)
               /\ \A i, j \in 1..Len(entries) :
                     i < j => CostOrdered(section, entries, i, j)

\* An X spell of cmc 2, entered first, is printed below spells of cmc 1 and 4.
C19_Witness ==
    /\ stage = "printedEntries"
    /\ Len(pipe.cards) = 3
    /\ pipe.cards[1].name = "Rolling Thunder"
    /\ PrintedBlock("Sorceries")
          = <<"4 Ponder", "2 Deep Analysis", "1 Rolling Thunder">>

-----------------------------------------------------------------------------
(* Claims about the land classifier *)

HasText(text, part) == Includes(ToLowerCase(text), ToLowerCase(part))

\* The rules of the land classifier, in their order.
LandRuleMatches(card, r) ==
    CASE r = 1  -> card.name \in BOUNCELAND
      [] r = 2  -> card.name \in ARTIFACT_BI
      [] r = 3  -> card.name \in ARTIFACT_MONO
      [] r = 4  -> card.name \in GATES
      [] r = 5  -> card.name \in FIXER
      [] r = 6  -> card.name \in TAPLAND_BI /\ Len(card.color_identity) = 2
      [] r = 7  -> card.name \in TAPLAND_MONO /\ Len(card.color_identity) = 1
      [] r = 8  -> card.name \in FETCH
      [] r = 9  -> card.name \in BASIC
      [] r = 10 -> Includes(card.type_line, "Basic")
      [] r = 11 -> /\ HasText(card.oracle_text, "return a land")
                   /\ HasText(card.oracle_text, "control")
                   /\ HasText(card.oracle_text, "enters tapped")
      [] r = 12 -> /\ Includes(card.type_line, "Land")
                   /\ Includes(card.type_line, "Artifact")
                   /\ HasText(card.name, "bridge")
      [] r = 13 -> /\ Includes(card.type_line, "Land")
                   /\ Includes(card.type_line, "Artifact")
      [] r = 14 -> Includes(card.type_line, "Gate")
      [] r = 15 -> HasText(card.oracle_text, "any color")
      [] r = 16 -> /\ HasText(card.oracle_text, "enters tapped")
                   /\ Len(card.color_identity) = 2
      [] r = 17 -> /\ HasText(card.oracle_text, "enters tapped")
                   /\ Len(card.color_identity) = 1
      [] r = 18 -> /\ HasText(card.oracle_text, "search")
                   /\ HasText(card.oracle_text, "land")

LandRuleCategory ==
    <<"Bounceland", "ArtifactBi", "ArtifactMono", "Gate", "Fixer", "TaplandBi",
      "TaplandMono", "Fetch", "Basic",
      "Basic", "Bounceland", "ArtifactBi", "ArtifactMono", "Gate", "Fixer",
      "TaplandBi", "TaplandMono", "Fetch">>

FirstLandRuleCategory(card) ==
    LET matching == {r \in DOMAIN LandRuleCategory : LandRuleMatches(card, r)}
    IN IF matching = {} THEN "Other"
       ELSE LandRuleCategory[CHOOSE r \in matching : \A other \in matching : r <= other]

\* C20: the category of a land is that of the first rule that matches, the
\* curated name sets first (Bounceland, ArtifactBi, ArtifactMono, Gate,
\* Fixer, TaplandBi with 2 colours, TaplandMono with 1, Fetch, Basic), then
\* the heuristics on type line, oracle text and colours, and Other when no
\* rule matches; it is always one of the ten categories.
C20_FirstMatchingLandRule ==
    stage = "categorized" =>
        /\ pipe.category = FirstLandRuleCategory(pipe.card)
        /\ \E r \in 1..Len(LandOrder) : LandOrder[r] = pipe.category

\* A land of the curated Bounceland set whose type line says Basic and whose
\* text says "any color" was categorized by its name.
C20_Witness ==
    /\ stage = "categorized"
    /\ pipe.card.name \in BOUNCELAND
    /\ Includes(pipe.card.type_line, "Basic")
    /\ HasText(pipe.card.oracle_text, "any color")
    /\ pipe.category = "Bounceland"

-----------------------------------------------------------------------------
(* Claims about the entries of a parsed deck *)

\* C21: every entry parseRawDeck emits has a quantity of at least 1 and a
\* name that is not empty and has no white space at either end.
C21_EntriesWellFormed ==
    stage = "parsed" =>
        \A i \in 1..Len(pipe.cards) :
            /\ pipe.cards[i].quantity \in Nat
            /\ pipe.cards[i].quantity >= 1
            /\ pipe.cards[i].name # ""
            /\ Trim(pipe.cards[i].name) = pipe.cards[i].name

-----------------------------------------------------------------------------
(* Claims about the external calls of a resolver run *)

CallsAmong(events, from, to) ==
    Cardinality({e \in from..to : events[e] = "call"})

ResponsesAmong(events, from, to) ==
    Cardinality({e \in from..to : events[e] = "response"})

\* C22: within a run no call is sent while another is unanswered, and a
\* rate-limit delay elapses between every two consecutive calls, the last
\* batch call and the first fuzzy call included.
C22_SequentialCallsWithDelay ==
    \A r \in 1..Len(runs) :
        LET events == runs[r].events
        IN /\ \A e \in 1..Len(events) :
                 CallsAmong(events, 1, e) - ResponsesAmong(events, 1, e) \in {0, 1}
           /\ \A e, f \in 1..Len(events) :
                 (e < f /\ events[e] = "call" /\ events[f] = "call") =>
                     \E d \in e + 1 .. f - 1 : events[d] = "delay"

-----------------------------------------------------------------------------
(* Claims about overlapping runs *)

InFlight(run) == run.pc \in {"batch", "fuzzy", "fuzzyDelay"}

Overlapping == Cardinality({r \in 1..Len(runs) : InFlight(runs[r])}) > 1

EntryNames(cards) == {cards[c].name : c \in 1..Len(cards)}

\* C23: when the last run in flight ends by writing its output, the run
\* started most recently having succeeded as well, normalizedOutput is the
\* deck of the run started most recently, and the index the ending run
\* normalized against holds the names of its own entries.
C23_LatestRunWins ==
    [][\A r \in 1..Len(runs) :
          ( /\ stage = "app"
            /\ Len(runs) = MaxRuns
            /\ InFlight(runs[r])
            /\ runs'[r].pc = "done"
            /\ \A q \in 1..Len(runs) : ~InFlight(runs'[q])
            /\ runs'[Len(runs)].pc = "done" )
          => /\ EntryNames(parseRawDeck(normalizedOutput'))
                   = EntryNames(runs'[Len(runs)].parsed)
             /\ runs'[r].returned =>
                   \A c \in 1..Len(runs'[r].parsed) :
                      getFrontFaceName(runs'[r].parsed[c].name) \in DOMAIN scryfallIndex'
      ]_vars

\* C29: isLoading is true in exactly the states in which a
\* fetchAndBuildIndex call is in flight, overlapping calls included.
C29_LoadingIffCallInFlight ==
    stage = "app" => (isLoading <=> \E r \in 1..Len(runs) : InFlight(runs[r]))

-----------------------------------------------------------------------------
(* Claims about normalize and the index it reads *)

\* C24: normalize fails unless the index held was built for the entries it
\* is given: it fails without an index, and with an index left over from a
\* run on other names.
C24_NoLeftoverIndex ==
    ( /\ stage = "normalizeCalled"
      /\ \/ pipe.builtFor = Null
         \/ EntryNames(parseRawDeck(pipe.builtFor)) # EntryNames(parseRawDeck(pipe.text)) )
        => pipe.result.threw

\* The names normalizeDeckWithIndex reports missing: those of the entries
\* whose front face the index does not hold, in the order of the entries.
ReportedMissing(parsed, index) ==
    LET Missing(card) == getFrontFaceName(card.name) \notin DOMAIN index
        unresolved == SelectSeq(parsed, Missing)
    IN [c \in 1..Len(unresolved) |-> unresolved[c].name]

\* C30: after a failure of the normalizer for missing names, the component
\* shows exactly the names reported missing, in their order.
C30_MissingCardsAsReported ==
    ( /\ stage = "normalizeCalled"
      /\ scryfallIndex # NoIndex
      /\ pipe.result.threw )
        => missingCards = ReportedMissing(parseRawDeck(pipe.text), scryfallIndex)

-----------------------------------------------------------------------------
(* Claims about the batches of the resolver *)

\* The identifiers of the requests, one request after the other.
RECURSIVE IdentifiersSent(_)
IdentifiersSent(requests) ==
    IF requests = <<>> THEN <<>>
    ELSE Head(requests).identifiers \o IdentifiersSent(Tail(requests))

FirstOccurrence(names, name) ==
    CHOOSE i \in 1..Len(names) :
        names[i] = name /\ \A j \in 1..(i - 1) : names[j] # name

\* The place of a name among the different names, by first occurrence.
PlaceOf(names, name) ==
    Cardinality({FirstOccurrence(names, other) :
                    other \in {names[j] : j \in 1..FirstOccurrence(names, name)}})

\* C25: the collection requests hold at most 75 identifiers each and,
\* taken together, one identifier for every different name, in the order
\* of first occurrence, each the front face of the name.
C25_BatchesPartitionNames ==
    stage = "batched" =>
        LET names    == pipe.cardNames
            distinct == {names[j] : j \in 1..Len(names)}
            sent     == IdentifiersSent(pipe.requests)
        IN /\ \A q \in 1..Len(pipe.requests) :
                 Len(pipe.requests[q].identifiers) \in 1..75
           /\ Len(sent) = Cardinality(distinct)
           /\ \A name \in distinct :
                 sent[PlaceOf(names, name)] = FrontFaceKey(name)

\* A list with a repeated name, a two-faced name and more than 75 different
\* names went out in two requests.
C25_Witness ==
    /\ stage = "batched"
    /\ Len(pipe.requests) = 2
    /\ Len(pipe.uniqueNames) < Len(pipe.cardNames)
    /\ \E j \in 1..Len(pipe.cardNames) : Includes(pipe.cardNames[j], "//")

-----------------------------------------------------------------------------
(* Claims about a resolver success without suggestions *)

ReturnedWithoutSuggestions(run) == run.returned /\ run.fetchedSuggestions = <<>>

\* C26: after a resolver run that returned no suggestions, the cards it
\* returned hold the front face of every parsed name, and the normalize
\* step that follows does not fail.
C26_SuccessWithoutSuggestionsNormalizes ==
    stage = "app" =>
        \A r \in 1..Len(runs) :
            ReturnedWithoutSuggestions(runs[r]) =>
                /\ runs[r].pc = "done"
                /\ \A c \in 1..Len(runs[r].parsed) :
                      \E k \in 1..Len(runs[r].allCards) :
                          FrontFaceKey(runs[r].allCards[k].name)
                              = FrontFaceKey(runs[r].parsed[c].name)

\* A run without suggestions that needed a fuzzy lookup to find a name.
C26_Witness ==
    /\ stage = "app"
    /\ \E r \in 1..Len(runs) :
          /\ ReturnedWithoutSuggestions(runs[r])
          /\ Len(runs[r].answers) > 0
          /\ runs[r].pc = "done"

-----------------------------------------------------------------------------
(* Claims about corrections and the results shown *)

\* The entries of a run with the suggestions of S applied to their names.
CorrectedEntries(parsed, fetched, S) ==
    [c \in 1..Len(parsed) |->
        IF \E g \in S : fetched[g].searchedName = parsed[c].name
        THEN [parsed[c] EXCEPT !.name =
                 fetched[CHOOSE g \in S : fetched[g].searchedName = parsed[c].name]
                     .suggestedCard.name]
        ELSE parsed[c]]

\* The input holds the entries of the last run with some of its
\* suggestions applied, and that run read them before the correction.
CorrectedSinceLastRun ==
    /\ Len(runs) > 0
    /\ LET last == runs[Len(runs)]
       IN \E S \in SUBSET (1..Len(last.fetchedSuggestions)) :
             /\ parseRawDeck(input) = CorrectedEntries(last.parsed, last.fetchedSuggestions, S)
             /\ parseRawDeck(input) # last.parsed

\* C27: once no suggestion is pending, a text that applySuggestion changed
\* has been handed to a new run: the results shown are not those of the
\* text before the correction.
C27_CorrectionRenormalized ==
    (stage = "app" /\ suggestions = <<>>) => ~CorrectedSinceLastRun

\* C28: whenever the input is blank, the output, the missing-card list and
\* the suggestions are all empty, also after a run that was started before
\* the input was cleared has completed.
C28_BlankInputShowsNothing ==
    (stage = "app" /\ Trim(input) = "") =>
        /\ normalizedOutput = ""
        /\ missingCards = <<>>
        /\ suggestions = <<>>

====
